---------------------------- MODULE Spec2Model ----------------------------
(***************************************************************************)
(* Period-synchronized dual-limit order engine of the Polymarket trading   *)
(* bot: src/src/bin/main_dual_limit_045.rs (startup discovery, period      *)
(* scheduler, snapshot callback) and src/src/simulation.rs (the simulation *)
(* tracker).                                                               *)
(*                                                                         *)
(* Three specifications share the variables:                               *)
(*   Spec      startup, clock, period scheduler, monitor and the snapshot  *)
(*             callback, callbacks serialized as the monitor loop awaits   *)
(*             each one;                                                   *)
(*   SpecConc  two snapshot callbacks running concurrently on the two      *)
(*             tokio mutexes last_seen_period and last_placed_period;      *)
(*   SpecSim   the SimulationTracker, one operation at a time.             *)
(*                                                                         *)
(* Prices are integers in cents (0.45 is 45), sizes are integers in        *)
(* shares, time is in epoch seconds.                                       *)
(***************************************************************************)
EXTENDS Integers, Sequences, FiniteSets, TLC

VARIABLES
    now,                 \* wall clock, epoch seconds (SystemTime::now)
    config,              \* config.trading: enable_eth / enable_solana / enable_xrp
    boot,                \* main's startup: get_or_discover_markets and its outcome
    monitor,             \* MarketMonitor: the four markets it holds
    sched,               \* the period scheduler task and its locals
    last_seen_period,    \* Arc<Mutex<Option<u64>>>
    last_placed_period,  \* Arc<Mutex<Option<u64>>>
    cb,                  \* the snapshot callback invocation(s) in progress
    locks,               \* holder of each of the two mutexes (0: free)
    race,                \* which callbacks passed the window / won the period
    calls,               \* every trader.execute_limit_buy call made so far
    hist,                \* history of the run (what the claims speak about)
    sim                  \* SimulationTracker
vars == <<now, config, boot, monitor, sched, last_seen_period,
          last_placed_period, cb, locks, race, calls, hist, sim>>

---------------------------------------------------------------------------
(* Program constants *)

PERIOD_DURATION == 900
LIMIT_PRICE == 45
WINDOW_SECONDS == 2
PREVIOUS_OFFSETS == 3
MAX_SLEEP == 1800
ANOMALY_SLEEP == 5

(* Bounds of the model *)

\* answers of the exchange, in one run, that are not the regular ones
MaxOdd == 1
\* how many periods back the exchange may still list a tradable market
MaxBack == 1
\* rollovers the clock runs through after the start period
MaxPeriods == 1
\* seconds after a boundary that the clock walks one by one
FineWindow == 3

\* Option<u64>: None is the empty set, Some(x) the singleton
None == {}
Some(x) == {x}

---------------------------------------------------------------------------
(* Markets (crate::models::Market) and the exchange's answers *)

\* A condition id is opaque. The exchange's id of the market of an asset in
\* a period is written <<asset, period>>; the ids of the placeholder
\* markets are the strings of the source, paired with 0.
CondId(asset, p) == <<asset, p>>

DUMMY_ETH == <<"dummy_eth_fallback", 0>>
DUMMY_BTC == <<"dummy_btc_fallback", 0>>
DUMMY_SOLANA == <<"dummy_solana_fallback", 0>>
DUMMY_XRP == <<"dummy_xrp_fallback", 0>>

\* slug_period: the timestamp that ends the slug, 0 for a "-fallback" slug;
\* up / down: whether the market carries that token
Market(c, p, a, cl, u, d) ==
    [condition_id |-> c, slug_period |-> p, active |-> a, closed |-> cl,
     up |-> u, down |-> d]

disabled_eth_market_wrong_id == Market(DUMMY_BTC, 0, FALSE, TRUE, FALSE, FALSE)

\* lines 603-618
disabled_eth_market == Market(DUMMY_ETH, 0, FALSE, TRUE, FALSE, FALSE)
\* lines 531-544
btc_fallback_market == Market(DUMMY_BTC, 0, FALSE, TRUE, FALSE, FALSE)
\* lines 620-635
disabled_solana_market == Market(DUMMY_SOLANA, 0, FALSE, TRUE, FALSE, FALSE)
\* lines 637-652
disabled_xrp_market == Market(DUMMY_XRP, 0, FALSE, TRUE, FALSE, FALSE)

\* Result<Market>: Ok(m) or Err
NoMarket == Market(<<"", 0>>, 0, FALSE, FALSE, FALSE, FALSE)
Ok(m) == [ok |-> TRUE, market |-> m]
Err == [ok |-> FALSE, market |-> NoMarket]

period_rounds_up(t) == ((t + PERIOD_DURATION - 1) \div PERIOD_DURATION) * PERIOD_DURATION

period(t) == (t \div PERIOD_DURATION) * PERIOD_DURATION

Assets == {"Eth", "Btc", "Solana", "Xrp"}

\* the slug prefixes the callers pass (lines 289, 293, 660, 673)
ETH_PREFIXES == <<"eth">>
BTC_PREFIXES == <<"btc">>
SOLANA_PREFIXES == <<"solana", "sol">>
XRP_PREFIXES == <<"xrp">>
Prefixes == {"eth", "btc", "solana", "sol", "xrp"}

AssetOf(prefix) ==
    CASE prefix = "eth" -> "Eth"
      [] prefix = "btc" -> "Btc"
      [] prefix \in {"solana", "sol"} -> "Solana"
      [] OTHER -> "Xrp"

\* a slug "{prefix}-updown-15m-{timestamp}" is the pair <<prefix, timestamp>>
Slug(prefix, timestamp) == <<prefix, timestamp>>

\* an answer of api.get_market_by_slug to one slug
Answer(c, a, cl, u, d) ==
    [found |-> TRUE, condition_id |-> c, active |-> a, closed |-> cl,
     up |-> u, down |-> d]
NotFound ==
    [found |-> FALSE, condition_id |-> <<"", 0>>, active |-> FALSE,
     closed |-> FALSE, up |-> FALSE, down |-> FALSE]

\* the slugs a discovery round at period p may fetch
Slugs(p) ==
    {Slug(pre, p - k * PERIOD_DURATION) : pre \in Prefixes, k \in 0..PREVIOUS_OFFSETS}

\* The regular answer at period p: the asset's own tradable market under
\* its first prefix and the current period, the ended market under an
\* earlier period, nothing under the alias "sol".
RegularAnswer(slug, p) ==
    IF slug[1] = "sol" THEN NotFound
    ELSE IF slug[2] = p
    THEN Answer(CondId(AssetOf(slug[1]), p), TRUE, FALSE, TRUE, TRUE)
    ELSE Answer(CondId(AssetOf(slug[1]), slug[2]), FALSE, TRUE, TRUE, TRUE)

\* What the exchange may answer instead: nothing; the asset's market
\* inactive, closed, or without its down token; the market of another asset
\* of that period; under an earlier period (at most MaxBack back) or under
\* the alias, the asset's market still tradable.
OddAnswers(slug, p) ==
    LET own == CondId(AssetOf(slug[1]), slug[2])
    IN  IF slug[2] = p /\ slug[1] # "sol"
        THEN {NotFound,
              Answer(own, FALSE, FALSE, TRUE, TRUE),
              Answer(own, TRUE, TRUE, TRUE, TRUE),
              Answer(own, TRUE, FALSE, TRUE, FALSE)}
             \cup {Answer(CondId(b, p), TRUE, FALSE, TRUE, TRUE) :
                      b \in Assets \ {AssetOf(slug[1])}}
        ELSE IF slug[2] >= p - MaxBack * PERIOD_DURATION
        THEN {Answer(own, TRUE, FALSE, TRUE, TRUE)}
        ELSE {}

\* The exchanges of one discovery round at period p: an answer for every
\* slug, at most n of them not the regular one.
Exchanges(p, n) ==
    LET regular == [s \in Slugs(p) |-> RegularAnswer(s, p)]
        F[k \in 0..n] ==
            IF k = 0 THEN {regular}
            ELSE F[k - 1] \cup
                 UNION {{[api EXCEPT ![s] = a] : a \in OddAnswers(s, p)} :
                           api \in F[k - 1], s \in Slugs(p)}
    IN  F[n]

OddCount(api, p) ==
    Cardinality({s \in Slugs(p) : api[s] # RegularAnswer(s, p)})

Candidates_current_first(slug_prefixes, rounded_time, include_previous) ==
    [i \in 1..Len(slug_prefixes) |-> Slug(slug_prefixes[i], rounded_time)]
    \o (IF include_previous
        THEN [j \in 1..(Len(slug_prefixes) * PREVIOUS_OFFSETS) |->
                 Slug(slug_prefixes[(j - 1) \div PREVIOUS_OFFSETS + 1],
                      rounded_time
                        - (((j - 1) % PREVIOUS_OFFSETS) + 1) * PERIOD_DURATION)]
        ELSE <<>>)

\* The slugs discover_market fetches, in order (lines 690-715).
Candidates(slug_prefixes, rounded_time, include_previous) ==
    LET one(pre) ==
            IF include_previous
            THEN [k \in 1..(PREVIOUS_OFFSETS + 1) |->
                     Slug(pre, rounded_time - (k - 1) * PERIOD_DURATION)]
            ELSE <<Slug(pre, rounded_time)>>
        F[i \in 0..Len(slug_prefixes)] ==
            IF i = 0 THEN <<>> ELSE F[i - 1] \o one(slug_prefixes[i])
    IN  F[Len(slug_prefixes)]

discover_market_accepts_closed(answer, seen_ids) ==
    /\ answer.found
    /\ answer.condition_id \notin seen_ids
    /\ answer.active

\* lines 696 and 708
discover_market_accepts(answer, seen_ids) ==
    /\ answer.found
    /\ answer.condition_id \notin seen_ids
    /\ answer.active
    /\ ~answer.closed

\* discover_market (lines 680-723): the first fetched slug whose market is
\* acceptable, or Err.
discover_market(api, slug_prefixes, current_time, seen_ids, include_previous) ==
    LET rounded_time == period(current_time)
        cand == Candidates(slug_prefixes, rounded_time, include_previous)
        ok == {k \in 1..Len(cand) : discover_market_accepts(api[cand[k]], seen_ids)}
    IN  IF ok = {} THEN Err
        ELSE LET k == CHOOSE x \in ok : \A y \in ok : x <= y
                 a == api[cand[k]]
             IN  Ok(Market(a.condition_id, cand[k][2],
                           a.active, a.closed, a.up, a.down))

\* lines 690-715: the slugs one call of discover_market asks the exchange
\* for, in order: the loops stop at the return of lines 698 and 710
fetched_slugs(api, slug_prefixes, current_time, seen_ids, include_previous) ==
    LET cand == Candidates(slug_prefixes, period(current_time), include_previous)
        ok == {k \in 1..Len(cand) : discover_market_accepts(api[cand[k]], seen_ids)}
    IN  IF ok = {} THEN cand
        ELSE SubSeq(cand, 1, CHOOSE x \in ok : \A y \in ok : x <= y)

seen_ids_after_inserting(api, slug_prefixes, current_time, seen_ids, include_previous) ==
    LET r == discover_market(api, slug_prefixes, current_time, seen_ids,
                             include_previous)
    IN  IF r.ok THEN seen_ids \cup {r.market.condition_id} ELSE seen_ids

\* discover_market (lines 680-723), what it leaves in the caller's seen_ids:
\* it takes the set by &mut and calls contains on it (lines 696 and 708),
\* nothing else
seen_ids_after(api, slug_prefixes, current_time, seen_ids, include_previous) ==
    seen_ids

\* lines 654-665
discover_solana_market(api, current_time, seen_ids) ==
    LET m == discover_market(api, SOLANA_PREFIXES, current_time, seen_ids, FALSE)
    IN  IF m.ok THEN m.market ELSE disabled_solana_market

\* lines 667-678
discover_xrp_market(api, current_time, seen_ids) ==
    LET m == discover_market(api, XRP_PREFIXES, current_time, seen_ids, FALSE)
    IN  IF m.ok THEN m.market ELSE disabled_xrp_market

---------------------------------------------------------------------------
(* Startup: main and get_or_discover_markets *)

\* first period of the run; discover_market looks up to three periods back
StartPeriod == 4 * PERIOD_DURATION
\* the clock stops here
EndTime == StartPeriod + MaxPeriods * PERIOD_DURATION + FineWindow
\* seconds past the boundary at which the process may start
StartOffsets == {0, 300}

NoMarkets ==
    [eth |-> NoMarket, btc |-> NoMarket, solana |-> NoMarket, xrp |-> NoMarket]

\* pc: "start", then "ok" or "fatal". same_answer: the exchange answered the
\* current ETH slug and the current BTC slug with one condition id.
\* rejected: the markets of a startup that failed.
BootInit ==
    [pc |-> "start", same_answer |-> FALSE, rejected |-> NoMarkets]

\* lines 559-580: TRUE when get_or_discover_markets bails
duplicate_condition_id(eth_market, btc_market, solana_market, xrp_market) ==
    \/ /\ eth_market.condition_id = btc_market.condition_id
       /\ eth_market.condition_id # DUMMY_ETH
    \/ /\ solana_market.condition_id # DUMMY_SOLANA
       /\ \/ /\ eth_market.condition_id = solana_market.condition_id
             /\ eth_market.condition_id # DUMMY_ETH
          \/ btc_market.condition_id = solana_market.condition_id
    \/ /\ xrp_market.condition_id # DUMMY_XRP
       /\ \/ /\ eth_market.condition_id = xrp_market.condition_id
             /\ eth_market.condition_id # DUMMY_ETH
          \/ btc_market.condition_id = xrp_market.condition_id
          \/ /\ solana_market.condition_id = xrp_market.condition_id
             /\ solana_market.condition_id # DUMMY_SOLANA

\* get_or_discover_markets (lines 503-583): Ok with the four markets, or Err
get_or_discover_markets(api, current_time) ==
    LET eth_found == discover_market(api, ETH_PREFIXES, current_time, {}, TRUE)
        eth_market == IF config.enable_eth /\ eth_found.ok
                      THEN eth_found.market ELSE disabled_eth_market
        seen1 == (IF config.enable_eth
                  THEN seen_ids_after(api, ETH_PREFIXES, current_time, {}, TRUE)
                  ELSE {})
                 \cup {eth_market.condition_id}
        btc_found == discover_market(api, BTC_PREFIXES, current_time, seen1, TRUE)
        btc_market == IF btc_found.ok THEN btc_found.market ELSE btc_fallback_market
        seen2 == seen_ids_after(api, BTC_PREFIXES, current_time, seen1, TRUE)
                 \cup {btc_market.condition_id}
        solana_market == IF config.enable_solana
                         THEN discover_solana_market(api, current_time, seen2)
                         ELSE disabled_solana_market
        seen3 == IF config.enable_solana
                 THEN seen_ids_after(api, SOLANA_PREFIXES, current_time, seen2, FALSE)
                 ELSE seen2
        xrp_market == IF config.enable_xrp
                      THEN discover_xrp_market(api, current_time, seen3)
                      ELSE disabled_xrp_market
        seen4 == IF config.enable_xrp
                 THEN seen_ids_after(api, XRP_PREFIXES, current_time, seen3, FALSE)
                 ELSE seen3
    IN  [ok |-> ~duplicate_condition_id(eth_market, btc_market,
                                        solana_market, xrp_market),
         markets |-> [eth |-> eth_market, btc |-> btc_market,
                      solana |-> solana_market, xrp |-> xrp_market],
         seen_ids |-> seen4]

\* main, lines 162-180: on Err main returns and the process exits, on Ok the
\* MarketMonitor is built from the four markets
Startup ==
    /\ boot.pc = "start"
    /\ \E api \in Exchanges(period(now), MaxOdd - hist.odd) :
         \E r \in {get_or_discover_markets(api, now)} :
         LET eth_answer == api[Slug("eth", period(now))]
             btc_answer == api[Slug("btc", period(now))]
         IN  /\ boot' = [pc |-> IF r.ok THEN "ok" ELSE "fatal",
                         same_answer |->
                             /\ eth_answer.found
                             /\ btc_answer.found
                             /\ eth_answer.condition_id = btc_answer.condition_id,
                         rejected |-> IF r.ok THEN NoMarkets ELSE r.markets]
             /\ monitor' = IF r.ok THEN r.markets ELSE monitor
             /\ hist' = [hist EXCEPT !.odd = @ + OddCount(api, period(now))]
    /\ UNCHANGED <<now, config, sched, last_seen_period,
                   last_placed_period, cb, locks, race, calls, sim>>

Running == boot.pc = "ok"

---------------------------------------------------------------------------
(* Clock *)

\* The clock walks second by second through the first FineWindow seconds of
\* a period and jumps from there to the next boundary.
NextTime(t) ==
    IF t % PERIOD_DURATION < FineWindow THEN t + 1
    ELSE period(t) + PERIOD_DURATION

Tick ==
    /\ Running
    /\ now < EndTime
    /\ now' = NextTime(now)
    /\ UNCHANGED <<config, boot, monitor, sched, last_seen_period,
                   last_placed_period, cb, locks, race, calls, hist, sim>>

---------------------------------------------------------------------------
(* MarketMonitor, as the specification describes it (its source is not in  *)
(* src/): it holds the four markets, its period is the BTC market's, and   *)
(* update_markets swaps the four markets at once.                          *)

get_current_market_timestamp == monitor.btc.slug_period

get_current_condition_ids ==
    <<monitor.eth.condition_id, monitor.btc.condition_id>>

time_remaining(p, t) ==
    IF p + PERIOD_DURATION > t THEN p + PERIOD_DURATION - t ELSE 0

PeriodSnapshot ==
    [period_timestamp |-> get_current_market_timestamp,
     time_remaining_seconds |-> time_remaining(get_current_market_timestamp, now),
     eth_market |-> monitor.eth, btc_market |-> monitor.btc,
     solana_market |-> monitor.solana, xrp_market |-> monitor.xrp]

NoSnapshot ==
    [period_timestamp |-> 0, time_remaining_seconds |-> 0,
     eth_market |-> NoMarket, btc_market |-> NoMarket,
     solana_market |-> NoMarket, xrp_market |-> NoMarket]

---------------------------------------------------------------------------
(* Period scheduler task: main, lines 241-328 *)

SchedInit == [pc |-> "top", wake_at |-> 0]

wait_decision_restarts(current_time, current_market_timestamp) ==
    [pc |-> "anomaly", sleep |-> ANOMALY_SLEEP]

wait_decision_ignores_mismatch(current_time, current_market_timestamp) ==
    [pc |-> "sleeping",
     sleep |-> period(current_time) + PERIOD_DURATION - current_time]

\* lines 243-273: what the iteration does before discovering:
\* "discover" at once, "sleeping" to the boundary, or "anomaly" (5 s, restart)
wait_decision(current_time, current_market_timestamp) ==
    LET current_period == period(current_time)
        next_period_timestamp == current_period + PERIOD_DURATION
        sleep_duration == IF next_period_timestamp > current_time
                          THEN next_period_timestamp - current_time ELSE 0
    IN  IF current_market_timestamp # current_period /\ current_market_timestamp # 0
        THEN [pc |-> "discover", sleep |-> 0]
        ELSE IF sleep_duration > 0 /\ sleep_duration < MAX_SLEEP
        THEN [pc |-> "sleeping", sleep |-> sleep_duration]
        ELSE IF sleep_duration = 0
        THEN [pc |-> "discover", sleep |-> 0]
        ELSE [pc |-> "anomaly", sleep |-> ANOMALY_SLEEP]

\* lines 283-286: seen_ids as the scheduler seeds it: the two ids
\* get_current_condition_ids returns
rollover_seen_ids ==
    LET ids == get_current_condition_ids
    IN  {ids[1], ids[2]}

\* lines 283-303: the four markets the scheduler discovers, seen_ids seeded
\* with the ETH and BTC ids the monitor holds
rollover_discovery(api, current_time) ==
    LET seen_ids == rollover_seen_ids
        seen1 == IF config.enable_eth
                 THEN seen_ids_after(api, ETH_PREFIXES, current_time, seen_ids, TRUE)
                 ELSE seen_ids
        seen2 == seen_ids_after(api, BTC_PREFIXES, current_time, seen1, TRUE)
        seen3 == IF config.enable_solana
                 THEN seen_ids_after(api, SOLANA_PREFIXES, current_time, seen2, FALSE)
                 ELSE seen2
        seen4 == IF config.enable_xrp
                 THEN seen_ids_after(api, XRP_PREFIXES, current_time, seen3, FALSE)
                 ELSE seen3
    IN  [eth_result |-> IF config.enable_eth
                        THEN discover_market(api, ETH_PREFIXES, current_time,
                                             seen_ids, TRUE)
                        ELSE Ok(disabled_eth_market),
         btc_result |-> discover_market(api, BTC_PREFIXES, current_time,
                                        seen1, TRUE),
         solana_market |-> IF config.enable_solana
                           THEN discover_solana_market(api, current_time, seen2)
                           ELSE disabled_solana_market,
         xrp_market |-> IF config.enable_xrp
                        THEN discover_xrp_market(api, current_time, seen3)
                        ELSE disabled_xrp_market,
         seen_ids |-> seen4]

\* lines 305-326: the markets the monitor holds after the match on the two
\* results: with both Ok and update_markets succeeding the four discovered
\* ones, otherwise (a warning) the ones it held
markets_after_rollover(d, update_ok) ==
    IF d.eth_result.ok /\ d.btc_result.ok /\ update_ok
    THEN [eth |-> d.eth_result.market,
          btc |-> d.btc_result.market,
          solana |-> d.solana_market,
          xrp |-> d.xrp_market]
    ELSE monitor

rollover_effects_reset_anyway(d, update_ok, is_simulation) ==
    IF d.eth_result.ok /\ d.btc_result.ok
    THEN (IF update_ok THEN <<"update_markets">> ELSE <<"warn">>)
         \o <<"reset_period">>
    ELSE <<"warn">>

\* lines 305-326: what the match does, in order: the swap of update_markets
\* when it succeeds, the MARKET_START record when a simulation tracker is
\* there, reset_period; a warning in the three other arms
rollover_effects(d, update_ok, is_simulation) ==
    IF d.eth_result.ok /\ d.btc_result.ok
    THEN IF update_ok
         THEN <<"update_markets">>
              \o (IF is_simulation THEN <<"log_market_start">> ELSE <<>>)
              \o <<"reset_period">>
         ELSE <<"warn">>
    ELSE <<"warn">>

\* lines 275-326: the discovery, then with both results Ok update_markets
\* (which may fail); otherwise a warning
\* hist.attempted: the period of the latest discovery of the scheduler
Rollover ==
    \E api \in Exchanges(period(now), MaxOdd - hist.odd), update_ok \in BOOLEAN :
        \E d \in {rollover_discovery(api, now)} :
            /\ monitor' = markets_after_rollover(d, update_ok)
            /\ hist' = [hist EXCEPT
                   !.attempted = period(now),
                   !.odd = @ + OddCount(api, period(now)),
                   !.updated = @ \/ (d.eth_result.ok /\ d.btc_result.ok /\ update_ok)]

\* One iteration from the top of the loop (line 242): it goes to sleep, or,
\* with nothing to wait for, discovers at once and starts over.
SchedTop ==
    /\ Running
    /\ sched.pc = "top"
    /\ LET d == wait_decision(now, get_current_market_timestamp)
       IN  IF d.pc = "discover"
           THEN /\ Rollover
                /\ UNCHANGED sched
           ELSE /\ sched' = [pc |-> d.pc, wake_at |-> now + d.sleep]
                /\ UNCHANGED <<monitor, hist>>
    /\ UNCHANGED <<now, config, boot, last_seen_period,
                   last_placed_period, cb, locks, race, calls, sim>>

\* tokio::time::sleep returns once the time has passed: after the sleep to
\* the boundary (line 266) the discovery, after the anomaly sleep (line 270)
\* the next iteration
SchedWake ==
    /\ sched.pc \in {"sleeping", "anomaly"}
    /\ now >= sched.wake_at
    /\ IF sched.pc = "sleeping" THEN Rollover ELSE UNCHANGED <<monitor, hist>>
    /\ sched' = [sched EXCEPT !.pc = "top"]
    /\ UNCHANGED <<now, config, boot, last_seen_period,
                   last_placed_period, cb, locks, race, calls, sim>>

---------------------------------------------------------------------------
(* SimulationTracker (src/simulation.rs). Prices are in cents, sizes in    *)
(* shares, amounts in cents.                                               *)

\* add_limit_order calls in one run
MaxAdds == 3

\* config.trading.dual_limit_shares (line 111), in shares
limit_shares == 10
\* what a share of the winning side pays at resolution (line 611), in cents
FINAL_VALUE == 100

\* the market and the tokens the tracker is driven with
SimCondition == CondId("Btc", StartPeriod)
SimTokens == {<<SimCondition, "Up">>, <<SimCondition, "Down">>}
Sides == {"BUY", "SELL"}
\* the asks quoted: 0, a cent under the limit price, the limit price, a
\* cent over; the bids quoted: the same
AskQuotes == {0, LIMIT_PRICE - 1, LIMIT_PRICE, LIMIT_PRICE + 1}
BidQuotes == {0, LIMIT_PRICE - 1, LIMIT_PRICE, LIMIT_PRICE + 1}
\* TokenPrice: bid and ask are Option<Decimal>
TokenPrices == [bid : {None} \cup {Some(q) : q \in BidQuotes},
                ask : {None} \cup {Some(q) : q \in AskQuotes}]
\* current_prices: HashMap<String, TokenPrice>, a function on the tokens
\* that have an entry
PriceMaps == UNION {[ts -> TokenPrices] : ts \in SUBSET SimTokens}

\* line 147: format!("{}_{}", token_id, side)
OrderKey(token_id, side) == <<token_id, side>>

\* SimulationTracker::new (lines 53-72). quote: for each order key, what the
\* checks since the order under it was added have supplied for its token,
\* "none", "miss" or "hit": for a BUY order a hit is an ask a with
\* 0 < a <= target, for a SELL order a bid b with b > 0 and b >= target.
SimInit ==
    [pending_limit_orders |-> <<>>, positions |-> <<>>,
     total_realized_pnl |-> 0, total_invested |-> 0,
     adds |-> 0, quote |-> <<>>]

\* a function with one more entry, or one entry replaced (HashMap::insert)
Insert(f, k, v) == [x \in DOMAIN f \cup {k} |-> IF x = k THEN v ELSE f[x]]

\* add_limit_order (lines 133-194)
add_limit_order(s, token_id, token_type, condition_id, target_price, size, side, period_timestamp) ==
    LET order_key == OrderKey(token_id, side)
        order == [token_id |-> token_id, token_type |-> token_type,
                  condition_id |-> condition_id, target_price |-> target_price,
                  size |-> size, side |-> side,
                  period_timestamp |-> period_timestamp, filled |-> FALSE]
    IN  [s EXCEPT
            !.pending_limit_orders = Insert(@, order_key, order),
            !.adds = @ + 1,
            !.quote = Insert(@, order_key, "none")]

buy_fill_condition_strict(ask, target_price) == ask > 0 /\ ask < target_price

\* line 220
buy_fill_condition(ask, target_price) == ask > 0 /\ ask <= target_price

sell_fill_condition_strict(bid, target_price) == bid > 0 /\ bid > target_price

\* line 268
sell_fill_condition(bid, target_price) == bid > 0 /\ bid >= target_price

\* orders of periods before the one in which the tracker was driven expire
should_fill_in_its_period(order, current_prices) ==
    /\ order.period_timestamp >= StartPeriod
    /\ ~order.filled
    /\ order.token_id \in DOMAIN current_prices
    /\ LET price_data == current_prices[order.token_id]
       IN  IF order.side = "BUY"
           THEN \E ask \in price_data.ask :
                    buy_fill_condition(ask, order.target_price)
           ELSE \E bid \in price_data.bid :
                    sell_fill_condition(bid, order.target_price)

\* lines 211-294: whether check_limit_orders marks the order for a fill
should_fill(order, current_prices) ==
    /\ ~order.filled
    /\ order.token_id \in DOMAIN current_prices
    /\ LET price_data == current_prices[order.token_id]
       IN  IF order.side = "BUY"
           THEN \E ask \in price_data.ask :
                    buy_fill_condition(ask, order.target_price)
           ELSE \E bid \in price_data.bid :
                    sell_fill_condition(bid, order.target_price)

fill_price_target(order, current_prices) == order.target_price

\* lines 336-350
fill_price(order, current_prices) ==
    LET quoted == IF order.token_id \in DOMAIN current_prices
                  THEN IF order.side = "BUY"
                       THEN current_prices[order.token_id].ask
                       ELSE current_prices[order.token_id].bid
                  ELSE None
    IN  IF quoted = None THEN order.target_price
        ELSE CHOOSE q \in quoted : TRUE

position_key_per_market(order) == <<order.condition_id, order.side>>

\* line 358: positions are keyed by token_id
position_key(order) == order.token_id

realized_pnl_proceeds(price, position) == price * position.units

\* line 420
realized_pnl(price, position) ==
    (price - position.purchase_price) * position.units

\* fill_limit_order (lines 329-447)
fill_limit_order(s, order_key, current_prices) ==
    IF order_key \notin DOMAIN s.pending_limit_orders
       \/ s.pending_limit_orders[order_key].filled
    THEN s
    ELSE
    LET order == s.pending_limit_orders[order_key]
        price == fill_price(order, current_prices)
        filled == [s EXCEPT !.pending_limit_orders[order_key].filled = TRUE]
    IN  IF order.side = "BUY"
        THEN [filled EXCEPT
                !.positions = Insert(@, position_key(order),
                    [token_id |-> order.token_id,
                     token_type |-> order.token_type,
                     condition_id |-> order.condition_id,
                     purchase_price |-> price,
                     units |-> order.size,
                     investment_amount |-> order.size * price,
                     period_timestamp |-> order.period_timestamp,
                     sold |-> FALSE,
                     sell_price_actual |-> None]),
                !.total_invested = @ + order.size * price]
        ELSE IF order.token_id \in DOMAIN s.positions
                /\ ~s.positions[order.token_id].sold
        THEN [filled EXCEPT
                !.positions[order.token_id].sold = TRUE,
                !.positions[order.token_id].sell_price_actual = Some(price),
                !.total_realized_pnl = @ +
                    realized_pnl(price, s.positions[order.token_id])]
        ELSE filled

\* lines 318-326: the marked orders filled one after the other
fill_all(s, keys, current_prices) ==
    LET F[n \in 0..Len(keys)] ==
            IF n = 0 THEN s
            ELSE fill_limit_order(F[n - 1], keys[n], current_prices)
    IN  F[Len(keys)]

\* the orders of a set of keys, one after the other in some order
Orderings(keys) ==
    {q \in [1..Cardinality(keys) -> keys] :
        \A i, j \in 1..Cardinality(keys) : i # j => q[i] # q[j]}

\* what a check supplies for an order
supplied(order, current_prices, before) ==
    IF /\ order.token_id \in DOMAIN current_prices
       /\ IF order.side = "BUY"
          THEN \E a \in current_prices[order.token_id].ask :
                   0 < a /\ a <= order.target_price
          ELSE \E b \in current_prices[order.token_id].bid :
                   b > 0 /\ b >= order.target_price
    THEN "hit"
    ELSE IF before = "hit" THEN "hit" ELSE "miss"

AddLimitOrder ==
    /\ sim.adds < MaxAdds
    /\ \E token_id \in SimTokens, side \in Sides :
         sim' = add_limit_order(sim, token_id, <<"Btc", token_id[2]>>,
                                SimCondition, LIMIT_PRICE, limit_shares, side,
                                StartPeriod)
    /\ UNCHANGED <<now, config, boot, monitor, sched, last_seen_period,
                   last_placed_period, cb, locks, race, calls, hist>>

\* check_limit_orders (lines 197-326); the orders are marked in the
\* HashMap's iteration order, which is any order
CheckLimitOrders ==
    /\ \E current_prices \in PriceMaps :
         LET orders == sim.pending_limit_orders
             unfilled == {k \in DOMAIN orders : ~orders[k].filled}
             marked == {k \in DOMAIN orders : should_fill(orders[k], current_prices)}
             noted == [sim EXCEPT !.quote =
                          [k \in DOMAIN orders |->
                              supplied(orders[k], current_prices, sim.quote[k])]]
         IN  IF unfilled # {} /\ DOMAIN current_prices = {}
             THEN sim' = noted
             ELSE \E orders_to_fill \in Orderings(marked) :
                    sim' = fill_all(noted, orders_to_fill, current_prices)
    /\ UNCHANGED <<now, config, boot, monitor, sched, last_seen_period,
                   last_placed_period, cb, locks, race, calls, hist>>

\* the sum of f over a finite set
SumOver(S, f(_)) ==
    LET F[T \in SUBSET S] ==
            IF T = {} THEN 0
            ELSE LET x == CHOOSE y \in T : TRUE
                 IN  f(x) + F[T \ {x}]
    IN  F[S]

positions_to_resolve_any_market(s, condition_id) ==
    {t \in DOMAIN s.positions : ~s.positions[t].sold}

\* lines 588-596: the tokens of the positions to resolve
positions_to_resolve(s, condition_id) ==
    {t \in DOMAIN s.positions :
        /\ s.positions[t].condition_id = condition_id
        /\ ~s.positions[t].sold}

position_won_when_up(token_type, market_resolved_up) == market_resolved_up

\* lines 602-609
position_won(token_type, market_resolved_up) ==
    IF token_type[2] = "Up" THEN market_resolved_up ELSE ~market_resolved_up

final_value_always_paid(position, market_resolved_up) == FINAL_VALUE

\* line 611, in cents a share
final_value(position, market_resolved_up) ==
    IF position_won(position.token_type, market_resolved_up)
    THEN FINAL_VALUE ELSE 0

\* line 612
position_value(position, market_resolved_up) ==
    position.units * final_value(position, market_resolved_up)

\* resolve_market_positions (lines 581-653): the tracker it leaves
resolve_market_positions(s, condition_id, market_resolved_up) ==
    LET resolved == positions_to_resolve(s, condition_id)
        position_pnl(t) ==
            position_value(s.positions[t], market_resolved_up)
            - s.positions[t].investment_amount
    IN  [s EXCEPT
            !.positions =
                [t \in DOMAIN s.positions |->
                    IF t \in resolved
                    THEN [s.positions[t] EXCEPT
                            !.sold = TRUE,
                            !.sell_price_actual =
                                Some(final_value(s.positions[t],
                                                 market_resolved_up))]
                    ELSE s.positions[t]],
            !.total_realized_pnl = @ + SumOver(resolved, position_pnl)]

\* resolve_market_positions, what it returns (lines 597-652):
\* (total_spent, total_earned, net_pnl)
resolve_market_returns(s, condition_id, market_resolved_up) ==
    LET resolved == positions_to_resolve(s, condition_id)
        cost(t) == s.positions[t].investment_amount
        value(t) == position_value(s.positions[t], market_resolved_up)
        total_spent_for_market == SumOver(resolved, cost)
        total_earned_for_market == SumOver(resolved, value)
    IN  [total_spent |-> total_spent_for_market,
         total_earned |-> total_earned_for_market,
         net_pnl |-> total_earned_for_market - total_spent_for_market]

\* a market the tracker holds nothing of
OtherCondition == CondId("Eth", StartPeriod)
SimConditions == {SimCondition, OtherCondition}

ResolveMarketPositions ==
    /\ \E condition_id \in SimConditions, market_resolved_up \in BOOLEAN :
         sim' = resolve_market_positions(sim, condition_id, market_resolved_up)
    /\ UNCHANGED <<now, config, boot, monitor, sched, last_seen_period,
                   last_placed_period, cb, locks, race, calls, hist>>

---------------------------------------------------------------------------
(* The mutexes of the SimulationTracker (lines 43-50) and, for each        *)
(* operation, the lock and unlock events it performs, in order. A guard    *)
(* that is a temporary of one statement is unlocked at the end of that      *)
(* statement; a guard bound by let is unlocked at the end of its block.     *)

Mutexes ==
    {"pending_limit_orders", "positions", "log_file", "market_files",
     "market_file", "total_realized_pnl", "total_invested"}

Lock(m) == <<"lock", m>>
Unlock(m) == <<"unlock", m>>
\* a mutex locked and unlocked with nothing locked in between
Brief(m) == <<Lock(m), Unlock(m)>>

\* the concatenation of f over a finite set, in some order
ConcatOver(S, f(_)) ==
    LET F[T \in SUBSET S] ==
            IF T = {} THEN <<>>
            ELSE LET x == CHOOSE y \in T : TRUE
                 IN  f(x) \o F[T \ {x}]
    IN  F[S]

\* log_to_file (lines 105-113)
log_to_file_locks == Brief("log_file")

\* get_market_file (lines 75-102): nothing for a placeholder market
get_market_file_locks(condition_id) ==
    IF condition_id[2] = 0 THEN <<>> ELSE Brief("market_files")

\* log_to_market (lines 116-130)
log_to_market_locks(condition_id) ==
    log_to_file_locks
    \o get_market_file_locks(condition_id)
    \o (IF condition_id[2] = 0 THEN <<>> ELSE Brief("market_file"))

\* get_total_spending_and_earnings (lines 656-661)
get_total_spending_and_earnings_locks ==
    Brief("total_invested") \o Brief("total_realized_pnl")

\* add_limit_order (lines 161-193): the insertion, the log line, then the
\* verification, which logs with the orders locked
add_limit_order_locks ==
    Brief("pending_limit_orders")
    \o log_to_file_locks
    \o <<Lock("pending_limit_orders")>>
    \o log_to_file_locks
    \o <<Unlock("pending_limit_orders")>>

\* fill_limit_order (lines 329-447)
fill_limit_order_locks(s, order_key) ==
    IF order_key \notin DOMAIN s.pending_limit_orders
       \/ s.pending_limit_orders[order_key].filled
    THEN Brief("pending_limit_orders")
    ELSE
    LET order == s.pending_limit_orders[order_key]
    IN  <<Lock("pending_limit_orders")>>
        \o (IF order.side = "BUY"
            THEN Brief("positions")
                 \o Brief("total_invested")
                 \o log_to_file_locks
                 \o log_to_market_locks(order.condition_id)
                 \o get_total_spending_and_earnings_locks
                 \o Brief("positions")
                 \o log_to_file_locks
            ELSE <<Lock("positions")>>
                 \o (IF order.token_id \in DOMAIN s.positions
                        /\ ~s.positions[order.token_id].sold
                     THEN Brief("total_realized_pnl")
                          \o log_to_file_locks
                          \o log_to_market_locks(order.condition_id)
                     ELSE <<>>)
                 \o <<Unlock("positions")>>)
        \o <<Unlock("pending_limit_orders")>>

\* check_limit_orders (lines 197-326): the marking with the orders locked,
\* a log line for every BUY order that has price data and for every SELL
\* order it marks, then the fills
check_limit_orders_locks(s, current_prices) ==
    LET orders == s.pending_limit_orders
        unfilled == {k \in DOMAIN orders : ~orders[k].filled}
        marked == {k \in DOMAIN orders : should_fill(orders[k], current_prices)}
        logged == {k \in unfilled :
                      /\ orders[k].token_id \in DOMAIN current_prices
                      /\ orders[k].side = "BUY" \/ k \in marked}
        one_log(k) == log_to_file_locks
        one_fill(k) == fill_limit_order_locks(s, k)
    IN  IF unfilled # {} /\ DOMAIN current_prices = {}
        THEN <<Lock("pending_limit_orders")>>
             \o log_to_file_locks
             \o <<Unlock("pending_limit_orders")>>
        ELSE <<Lock("pending_limit_orders")>>
             \o ConcatOver(logged, one_log)
             \o <<Unlock("pending_limit_orders")>>
             \o (IF marked # {} THEN log_to_file_locks ELSE <<>>)
             \o ConcatOver(marked, one_fill)

\* resolve_market_positions (lines 581-653)
resolve_market_positions_locks(s, condition_id) ==
    LET one(t) == Brief("positions")
                  \o Brief("total_realized_pnl")
                  \o log_to_file_locks
                  \o log_to_market_locks(s.positions[t].condition_id)
    IN  Brief("positions")
        \o ConcatOver(positions_to_resolve(s, condition_id), one)

\* calculate_unrealized_pnl (lines 458-478)
calculate_unrealized_pnl_locks == Brief("positions")

\* get_position_summary (lines 481-531): positions stays locked to the end
get_position_summary_locks ==
    <<Lock("positions")>>
    \o Brief("total_realized_pnl")
    \o Brief("total_invested")
    \o calculate_unrealized_pnl_locks
    \o <<Unlock("positions")>>

\* the mutexes held just before event n of a trace
HeldBefore(trace, n) ==
    {m \in Mutexes :
        \E i \in 1..(n - 1) :
            /\ trace[i] = Lock(m)
            /\ \A j \in (i + 1)..(n - 1) : trace[j] # Unlock(m)}

\* the pairs (held, wanted): a mutex locked while another is held
Nested(trace) ==
    UNION {{<<held, trace[n][2]>> : held \in HeldBefore(trace, n)} :
              n \in {i \in 1..Len(trace) : trace[i][1] = "lock"}}

---------------------------------------------------------------------------
(* Snapshot callback: main, lines 336-497 *)

Tasks == DOMAIN cb

\* A token id is opaque; the exchange names the tokens of a market, so a
\* token is identified here by its market's condition id and its side.
TokenId(market, side) == <<market.condition_id, side>>

BuyOpportunity_at_market(market, side, token_type, snapshot) ==
    [condition_id |-> market.condition_id,
     token_id |-> TokenId(market, side),
     token_type |-> token_type,
     bid_price |-> LIMIT_PRICE,
     period_timestamp |-> snapshot.period_timestamp,
     time_remaining_seconds |-> snapshot.time_remaining_seconds,
     time_elapsed_seconds |-> PERIOD_DURATION - snapshot.time_remaining_seconds,
     use_market_order |-> TRUE]

BuyOpportunity(market, side, token_type, snapshot) ==
    [condition_id |-> market.condition_id,
     token_id |-> TokenId(market, side),
     token_type |-> token_type,
     bid_price |-> LIMIT_PRICE,
     period_timestamp |-> snapshot.period_timestamp,
     time_remaining_seconds |-> snapshot.time_remaining_seconds,
     time_elapsed_seconds |-> PERIOD_DURATION - snapshot.time_remaining_seconds,
     use_market_order |-> FALSE]

\* the two pushes of one asset (for example lines 378-401)
asset_opportunities_up_only(market, asset, snapshot) ==
    IF market.up THEN <<BuyOpportunity(market, "Up", <<asset, "Up">>, snapshot)>>
    ELSE <<>>

asset_opportunities(market, asset, snapshot) ==
    (IF market.up THEN <<BuyOpportunity(market, "Up", <<asset, "Up">>, snapshot)>>
     ELSE <<>>)
    \o (IF market.down
        THEN <<BuyOpportunity(market, "Down", <<asset, "Down">>, snapshot)>>
        ELSE <<>>)

\* lines 374-481
build_opportunities(snapshot) ==
    asset_opportunities(snapshot.btc_market, "Btc", snapshot)
    \o (IF config.enable_eth
        THEN asset_opportunities(snapshot.eth_market, "Eth", snapshot) ELSE <<>>)
    \o (IF config.enable_solana
        THEN asset_opportunities(snapshot.solana_market, "Solana", snapshot) ELSE <<>>)
    \o (IF config.enable_xrp
        THEN asset_opportunities(snapshot.xrp_market, "Xrp", snapshot) ELSE <<>>)

CbIdle == [pc |-> "idle", snapshot |-> NoSnapshot, opportunities |-> <<>>]

\* The Trader, as the specification describes it (its source is not in
\* src/): a position is active for (period, token type) once a limit buy
\* was submitted for them.
has_active_position(period_timestamp, token_type) ==
    \E k \in 1..Len(calls) :
        /\ calls[k].period_timestamp = period_timestamp
        /\ calls[k].token_type = token_type

\* line 345: TRUE when the callback returns
dead_period(snapshot) == snapshot.time_remaining_seconds = 0

\* lines 352-355: TRUE when the callback returns
startup_skip(seen, first_live, period_timestamp) == seen = None

window_closed_never(snapshot) == FALSE

\* lines 361-364: TRUE when the callback returns
window_closed(snapshot) ==
    PERIOD_DURATION - snapshot.time_remaining_seconds > WINDOW_SECONDS

already_placed_never(last, period_timestamp) == FALSE

\* line 368: TRUE when the callback returns
already_placed(last, period_timestamp) == last = Some(period_timestamp)

\* the assets of a batch that carry both tokens: BTC and the enabled assets
\* whose market in the snapshot has an up token and a down token
paired_assets(snapshot) ==
    {a \in Assets :
        /\ \/ a = "Btc"
           \/ a = "Eth" /\ config.enable_eth
           \/ a = "Solana" /\ config.enable_solana
           \/ a = "Xrp" /\ config.enable_xrp
        /\ LET m == CASE a = "Btc" -> snapshot.btc_market
                      [] a = "Eth" -> snapshot.eth_market
                      [] a = "Solana" -> snapshot.solana_market
                      [] OTHER -> snapshot.xrp_market
           IN  m.up /\ m.down}

\* hist.paired: for each batch built, its period with each such asset
batch_built(h, snapshot) ==
    [h EXCEPT !.paired = @ \cup
        {<<snapshot.period_timestamp, a>> : a \in paired_assets(snapshot)}]

\* Lines 345-485 run by one callback with no other callback between: the
\* values it leaves in the two mutexes and the batch it goes on to place.
callback_prefix(snapshot, seen, placed) ==
    LET p == snapshot.period_timestamp
    IN  IF dead_period(snapshot)
        THEN [seen |-> seen, placed |-> placed, opportunities |-> <<>>]
        ELSE IF startup_skip(seen, hist.first_live_period, p)
                \/ window_closed(snapshot)
                \/ already_placed(placed, p)
        THEN [seen |-> Some(p), placed |-> placed, opportunities |-> <<>>]
        ELSE [seen |-> Some(p), placed |-> Some(p),
              opportunities |-> build_opportunities(snapshot)]

\* start_monitoring hands the callback a snapshot; the callback runs up to
\* its placement loop (lines 345-485)
Deliver(i) ==
    /\ Running
    /\ cb[i].pc = "idle"
    /\ \E r \in {callback_prefix(PeriodSnapshot, last_seen_period,
                                  last_placed_period)} :
           /\ last_seen_period' = r.seen
           /\ last_placed_period' = r.placed
           /\ hist' = IF last_seen_period = None /\ r.seen # None
                      THEN [hist EXCEPT !.first_live_period = r.seen]
                      ELSE IF r.placed # last_placed_period
                      THEN batch_built(hist, PeriodSnapshot)
                      ELSE hist
           /\ cb' = [cb EXCEPT ![i] =
                  IF r.opportunities = <<>> THEN CbIdle
                  ELSE [pc |-> "place", snapshot |-> NoSnapshot,
                        opportunities |-> r.opportunities]]
    /\ UNCHANGED <<now, config, boot, monitor, sched, locks, race, calls, sim>>

\* one execute_limit_buy (line 492)
LimitBuy(opportunity, i) ==
    [token_id |-> opportunity.token_id,
     token_type |-> opportunity.token_type,
     condition_id |-> opportunity.condition_id,
     period_timestamp |-> opportunity.period_timestamp,
     price |-> opportunity.bid_price,
     size |-> limit_shares,
     task |-> i]

\* lines 488-495: one turn of the placement loop. The Err of
\* execute_limit_buy is only logged (line 493).
\* hist.late_buy: a call was made with the clock past the window of its
\* period; hist.failed_buy: a call returned Err
Place(i) ==
    /\ cb[i].pc = "place"
    /\ LET opportunity == Head(cb[i].opportunities)
           rest == Tail(cb[i].opportunities)
       IN  /\ IF has_active_position(opportunity.period_timestamp,
                                     opportunity.token_type)
              THEN UNCHANGED <<calls, hist>>
              ELSE \E ok \in BOOLEAN :
                     /\ calls' = Append(calls, LimitBuy(opportunity, i))
                     /\ hist' = [hist EXCEPT
                            !.late_buy = @ \/ now > opportunity.period_timestamp
                                                    + WINDOW_SECONDS,
                            !.failed_buy = @ \/ ~ok]
           /\ cb' = [cb EXCEPT ![i] =
                  IF rest = <<>> THEN CbIdle
                  ELSE [cb[i] EXCEPT !.opportunities = rest]]
    /\ UNCHANGED <<now, config, boot, monitor, sched, last_seen_period,
                   last_placed_period, locks, race, sim>>

---------------------------------------------------------------------------
(* The snapshot callback step by step, for callbacks that run at the same  *)
(* time: each lock().await, and each access under a mutex, is a step.      *)

\* tokio Mutex::lock: granted when the mutex is free
lock_granted_always(holder) == TRUE

lock_granted(holder) == holder = 0

\* lines 345-347: the callback starts with its snapshot
Start(i) ==
    /\ Running
    /\ cb[i].pc = "idle"
    /\ i \notin race.started
    /\ race' = [race EXCEPT !.started = @ \cup {i}]
    /\ cb' = [cb EXCEPT ![i] =
           IF dead_period(PeriodSnapshot) THEN CbIdle
           ELSE [pc |-> "seen_lock", snapshot |-> PeriodSnapshot,
                 opportunities |-> <<>>]]
    /\ UNCHANGED <<now, config, boot, monitor, sched, last_seen_period,
                   last_placed_period, locks, calls, hist, sim>>

\* line 351
SeenLock(i) ==
    /\ cb[i].pc = "seen_lock"
    /\ lock_granted(locks.seen)
    /\ locks' = [locks EXCEPT !.seen = i]
    /\ cb' = [cb EXCEPT ![i].pc = "seen_section"]
    /\ UNCHANGED <<now, config, boot, monitor, sched, last_seen_period,
                   last_placed_period, race, calls, hist, sim>>

\* lines 352-364: the section under the last_seen_period mutex, then the
\* window test. race.passed: the callbacks that went past the window test
SeenSection(i) ==
    /\ cb[i].pc = "seen_section"
    /\ LET p == cb[i].snapshot.period_timestamp
           return == \/ startup_skip(last_seen_period, hist.first_live_period, p)
                     \/ window_closed(cb[i].snapshot)
       IN  /\ last_seen_period' = Some(p)
           /\ hist' = IF last_seen_period = None
                      THEN [hist EXCEPT !.first_live_period = Some(p)]
                      ELSE hist
           /\ cb' = [cb EXCEPT ![i] =
                  IF return THEN CbIdle ELSE [cb[i] EXCEPT !.pc = "placed_lock"]]
           /\ race' = IF return THEN race
                      ELSE [race EXCEPT !.passed = @ \cup {i}]
    /\ locks' = [locks EXCEPT !.seen = 0]
    /\ UNCHANGED <<now, config, boot, monitor, sched,
                   last_placed_period, calls, sim>>

\* line 367
PlacedLock(i) ==
    /\ cb[i].pc = "placed_lock"
    /\ lock_granted(locks.placed)
    /\ locks' = [locks EXCEPT !.placed = i]
    /\ cb' = [cb EXCEPT ![i].pc = "placed_read"]
    /\ UNCHANGED <<now, config, boot, monitor, sched, last_seen_period,
                   last_placed_period, race, calls, hist, sim>>

\* lines 368-370: the read under the last_placed_period mutex
PlacedRead(i) ==
    /\ cb[i].pc = "placed_read"
    /\ IF already_placed(last_placed_period, cb[i].snapshot.period_timestamp)
       THEN /\ cb' = [cb EXCEPT ![i] = CbIdle]
            /\ locks' = [locks EXCEPT !.placed = 0]
       ELSE /\ cb' = [cb EXCEPT ![i].pc = "placed_write"]
            /\ UNCHANGED locks
    /\ UNCHANGED <<now, config, boot, monitor, sched, last_seen_period,
                   last_placed_period, race, calls, hist, sim>>

\* lines 371-485: the write, the mutex released, the batch built.
\* race.won: the callbacks that set last_placed_period
PlacedWrite(i) ==
    /\ cb[i].pc = "placed_write"
    /\ last_placed_period' = Some(cb[i].snapshot.period_timestamp)
    /\ locks' = [locks EXCEPT !.placed = 0]
    /\ race' = [race EXCEPT !.won = @ \cup {i}]
    /\ hist' = batch_built(hist, cb[i].snapshot)
    /\ LET opportunities == build_opportunities(cb[i].snapshot)
       IN  cb' = [cb EXCEPT ![i] =
               IF opportunities = <<>> THEN CbIdle
               ELSE [pc |-> "place", snapshot |-> NoSnapshot,
                     opportunities |-> opportunities]]
    /\ UNCHANGED <<now, config, boot, monitor, sched, last_seen_period,
                   calls, sim>>

---------------------------------------------------------------------------
(* The system: startup, the clock, the scheduler, one callback at a time *)

HistInit ==
    [first_live_period |-> None, updated |-> FALSE, late_buy |-> FALSE,
     failed_buy |-> FALSE, odd |-> 0, paired |-> {}, attempted |-> 0]

RaceInit == [started |-> {}, passed |-> {}, won |-> {}]

Init ==
    /\ now \in {StartPeriod + o : o \in StartOffsets}
    /\ config \in [enable_eth : BOOLEAN, enable_solana : BOOLEAN,
                    enable_xrp : BOOLEAN]
    /\ boot = BootInit
    /\ monitor = NoMarkets
    /\ sched = SchedInit
    /\ last_seen_period = None
    /\ last_placed_period = None
    /\ cb = [i \in {1} |-> CbIdle]
    /\ locks = [seen |-> 0, placed |-> 0]
    /\ race = RaceInit
    /\ calls = <<>>
    /\ hist = HistInit
    /\ sim = SimInit

Next ==
    \/ Startup
    \/ Tick
    \/ SchedTop
    \/ SchedWake
    \/ \E i \in Tasks : Deliver(i)
    \/ \E i \in Tasks : Place(i)

Spec == Init /\ [][Next]_vars

\* The scheduler alone. It is a tokio task of its own (line 241) that reads
\* the clock and the monitor and nothing the callbacks write: the runtime
\* keeps running it whatever the callbacks do, its sleeps return once their
\* time has passed, and time passes.
NextLive ==
    \/ Startup
    \/ Tick
    \/ SchedTop
    \/ SchedWake

SpecLive ==
    /\ Init /\ [][NextLive]_vars
    /\ WF_vars(Tick) /\ WF_vars(SchedTop) /\ WF_vars(SchedWake)

---------------------------------------------------------------------------
(* Two callbacks at the same time, in a period being monitored *)

\* the regular markets of period p under the configuration
RegularMarkets(p) ==
    LET m(asset) == Market(CondId(asset, p), p, TRUE, FALSE, TRUE, TRUE)
    IN  [eth |-> IF config.enable_eth THEN m("Eth") ELSE disabled_eth_market,
         btc |-> m("Btc"),
         solana |-> IF config.enable_solana THEN m("Solana")
                    ELSE disabled_solana_market,
         xrp |-> IF config.enable_xrp THEN m("Xrp") ELSE disabled_xrp_market]

InitConc ==
    /\ now = StartPeriod
    /\ config \in [enable_eth : BOOLEAN, enable_solana : BOOLEAN,
                    enable_xrp : BOOLEAN]
    /\ boot = [BootInit EXCEPT !.pc = "ok"]
    /\ monitor = RegularMarkets(StartPeriod)
    /\ sched = SchedInit
    /\ last_seen_period \in {None, Some(StartPeriod - PERIOD_DURATION)}
    /\ last_placed_period \in {None, Some(StartPeriod - PERIOD_DURATION)}
    /\ cb = [i \in {1, 2} |-> CbIdle]
    /\ locks = [seen |-> 0, placed |-> 0]
    /\ race = RaceInit
    /\ calls = <<>>
    /\ hist = HistInit
    /\ sim = SimInit

NextConc ==
    \/ Tick
    \/ \E i \in Tasks : Start(i)
    \/ \E i \in Tasks : SeenLock(i)
    \/ \E i \in Tasks : SeenSection(i)
    \/ \E i \in Tasks : PlacedLock(i)
    \/ \E i \in Tasks : PlacedRead(i)
    \/ \E i \in Tasks : PlacedWrite(i)
    \/ \E i \in Tasks : Place(i)

SpecConc == InitConc /\ [][NextConc]_vars

---------------------------------------------------------------------------
(* The SimulationTracker driven by any calls, one at a time *)

InitSim ==
    /\ now = StartPeriod
    /\ config = [enable_eth |-> FALSE, enable_solana |-> FALSE,
                 enable_xrp |-> FALSE]
    /\ boot = [BootInit EXCEPT !.pc = "ok"]
    /\ monitor = RegularMarkets(StartPeriod)
    /\ sched = SchedInit
    /\ last_seen_period = None
    /\ last_placed_period = None
    /\ cb = [i \in {1} |-> CbIdle]
    /\ locks = [seen |-> 0, placed |-> 0]
    /\ race = RaceInit
    /\ calls = <<>>
    /\ hist = HistInit
    /\ sim = SimInit

NextSim ==
    \/ AddLimitOrder
    \/ CheckLimitOrders
    \/ ResolveMarketPositions

SpecSim == InitSim /\ [][NextSim]_vars



---------------------------------------------------------------------------
(* Tracker operations run by several tasks at the same time: each task     *)
(* goes through the lock and unlock events of its operation, one event a   *)
(* step. A tokio Mutex is not reentrant: lock().await on a mutex that is   *)
(* held waits until it is unlocked, also when the waiting task holds it.   *)

\* set_position_sell_price looking at the orders with the positions locked
set_position_sell_price_locks_orders_inside ==
    <<Lock("positions"), Lock("pending_limit_orders"),
      Unlock("pending_limit_orders"), Unlock("positions")>>

\* set_position_sell_price (lines 450-455)
set_position_sell_price_locks == Brief("positions")

\* get_all_positions (lines 555-561)
get_all_positions_locks == Brief("positions")

\* log_pending_orders_summary (lines 724-799): the orders stay locked while
\* it logs, in both branches
log_pending_orders_summary_locks ==
    <<Lock("pending_limit_orders")>>
    \o log_to_file_locks
    \o <<Unlock("pending_limit_orders")>>

\* log_position_summary (lines 534-537)
log_position_summary_locks == get_position_summary_locks \o log_to_file_locks

\* trackers the operations may find: empty; two BUY orders waiting; both
\* filled and a SELL order waiting for the Up position
TrackerWithOrders ==
    LET a == add_limit_order(SimInit, <<SimCondition, "Up">>, <<"Btc", "Up">>,
                             SimCondition, LIMIT_PRICE, limit_shares, "BUY",
                             StartPeriod)
    IN  add_limit_order(a, <<SimCondition, "Down">>, <<"Btc", "Down">>,
                        SimCondition, LIMIT_PRICE, limit_shares, "BUY",
                        StartPeriod)
TrackerWithPositions ==
    LET current_prices == [t \in SimTokens |->
                              [bid |-> None, ask |-> Some(LIMIT_PRICE)]]
        b == fill_limit_order(
                 fill_limit_order(TrackerWithOrders,
                                  OrderKey(<<SimCondition, "Up">>, "BUY"),
                                  current_prices),
                 OrderKey(<<SimCondition, "Down">>, "BUY"), current_prices)
    IN  add_limit_order(b, <<SimCondition, "Up">>, <<"Btc", "Up">>,
                        SimCondition, LIMIT_PRICE + 1, limit_shares, "SELL",
                        StartPeriod)
SampleTrackers == {SimInit, TrackerWithOrders, TrackerWithPositions}

\* the price maps the checks of the tasks are called with: nothing, and
\* both tokens quoted at the limit price or a cent over on both sides
SamplePrices ==
    {<<>>}
    \cup {[t \in SimTokens |-> [bid |-> Some(q), ask |-> Some(q)]] :
             q \in {LIMIT_PRICE, LIMIT_PRICE + 1}}

\* the operations a task may call, each with the events it goes through
Operation(op, trace) == [op |-> op, trace |-> trace]
TrackerOperations ==
    {Operation("add_limit_order", add_limit_order_locks),
     Operation("set_position_sell_price", set_position_sell_price_locks),
     Operation("get_all_positions", get_all_positions_locks),
     Operation("get_total_spending_and_earnings",
               get_total_spending_and_earnings_locks),
     Operation("log_pending_orders_summary", log_pending_orders_summary_locks)}
    \cup {Operation("check_limit_orders", check_limit_orders_locks(s, p)) :
             s \in SampleTrackers, p \in SamplePrices}
    \cup {Operation("resolve_market_positions",
                    resolve_market_positions_locks(s, SimCondition)) :
             s \in SampleTrackers}
SummaryOperations ==
    {Operation("get_position_summary", get_position_summary_locks),
     Operation("log_position_summary", log_position_summary_locks)}

TaskIdle == [op |-> "idle", trace |-> <<>>, pc |-> 1]
MutexesFree == [m \in Mutexes |-> 0]

\* a task calls an operation; race.summary: the summary operations are
\* among those the tasks call
TrackerCall(i) ==
    /\ cb[i].op = "idle"
    /\ \E o \in TrackerOperations
              \cup (IF race.summary THEN SummaryOperations ELSE {}) :
           cb' = [cb EXCEPT ![i] = [op |-> o.op, trace |-> o.trace, pc |-> 1]]
    /\ UNCHANGED <<now, config, boot, monitor, sched, last_seen_period,
                   last_placed_period, locks, race, calls, hist, sim>>

\* the event a task is at
AtEvent(i) ==
    IF cb[i].pc <= Len(cb[i].trace) THEN cb[i].trace[cb[i].pc] ELSE <<"return", "">>

\* lock().await returns once the mutex is free
MutexLock(i) ==
    /\ AtEvent(i)[1] = "lock"
    /\ lock_granted(locks[AtEvent(i)[2]])
    /\ locks' = [locks EXCEPT ![AtEvent(i)[2]] = i]
    /\ cb' = [cb EXCEPT ![i].pc = @ + 1]
    /\ UNCHANGED <<now, config, boot, monitor, sched, last_seen_period,
                   last_placed_period, race, calls, hist, sim>>

\* the guard is dropped
MutexUnlock(i) ==
    /\ AtEvent(i)[1] = "unlock"
    /\ locks' = [locks EXCEPT ![AtEvent(i)[2]] = 0]
    /\ cb' = [cb EXCEPT ![i].pc = @ + 1]
    /\ UNCHANGED <<now, config, boot, monitor, sched, last_seen_period,
                   last_placed_period, race, calls, hist, sim>>

\* the operation returns
TrackerReturn(i) ==
    /\ cb[i].op # "idle"
    /\ AtEvent(i)[1] = "return"
    /\ cb' = [cb EXCEPT ![i] = TaskIdle]
    /\ UNCHANGED <<now, config, boot, monitor, sched, last_seen_period,
                   last_placed_period, locks, race, calls, hist, sim>>

InitLocks ==
    /\ now = StartPeriod
    /\ config = [enable_eth |-> FALSE, enable_solana |-> FALSE,
                 enable_xrp |-> FALSE]
    /\ boot = [BootInit EXCEPT !.pc = "ok"]
    /\ monitor = RegularMarkets(StartPeriod)
    /\ sched = SchedInit
    /\ last_seen_period = None
    /\ last_placed_period = None
    /\ cb = [i \in {1, 2} |-> TaskIdle]
    /\ locks = MutexesFree
    /\ race \in [summary : BOOLEAN]
    /\ calls = <<>>
    /\ hist = HistInit
    /\ sim = SimInit

NextLocks ==
    \/ \E i \in Tasks : TrackerCall(i)
    \/ \E i \in Tasks : MutexLock(i)
    \/ \E i \in Tasks : MutexUnlock(i)
    \/ \E i \in Tasks : TrackerReturn(i)

\* tokio runs every task that can run, and its Mutex grants the lock in the
\* order of the requests: a task that asks for a mutex that is unlocked
\* again and again does get it
SpecLocks ==
    /\ InitLocks /\ [][NextLocks]_vars
    /\ \A i \in {1, 2} :
           /\ WF_vars(MutexUnlock(i)) /\ WF_vars(TrackerReturn(i))
           /\ SF_vars(MutexLock(i))

---------------------------------------------------------------------------
(* The tracker's data under operations of several tasks. A step is what an *)
(* operation does while it holds the mutex of the data it works on:        *)
(* add_limit_order inserts under the orders' mutex; check_limit_orders     *)
(* marks the orders under the orders' mutex, releases it, and fills the    *)
(* marked orders one by one, each fill_limit_order holding the orders'     *)
(* mutex from its first line to its return; resolve_market_positions       *)
(* copies the unsold positions under the positions' mutex, releases it,    *)
(* and then, position by position, locks the positions to mark the entry   *)
(* sold and locks total_realized_pnl to add the profit of its copy.        *)
(* race.serial and race.credits are history: how many BUY fills have       *)
(* stored a Position for a token, and how often the n-th Position of a     *)
(* token has been added to total_realized_pnl.                             *)

\* the target prices of the orders added
RaceTargets == {LIMIT_PRICE - 1, LIMIT_PRICE}

PositionIds == SimTokens \X (1..MaxAdds)
RaceHistInit ==
    [serial |-> [t \in SimTokens |-> 0], credits |-> [id \in PositionIds |-> 0]]

RaceIdle ==
    [op |-> "idle", orders_to_fill |-> <<>>, current_prices |-> <<>>,
     positions_to_resolve |-> <<>>, market_resolved_up |-> FALSE,
     pc |-> "idle"]

\* lines 133-166
RaceAdd(i) ==
    /\ cb[i].op = "idle"
    /\ sim.adds < MaxAdds
    /\ \E token_id \in SimTokens, side \in Sides, target_price \in RaceTargets :
         sim' = add_limit_order(sim, token_id, <<"Btc", token_id[2]>>,
                                SimCondition, target_price, limit_shares, side,
                                StartPeriod)
    /\ UNCHANGED <<now, config, boot, monitor, sched, last_seen_period,
                   last_placed_period, cb, locks, race, calls, hist>>

\* lines 197-316: the orders marked, with the orders locked
RaceCheck(i) ==
    /\ cb[i].op = "idle"
    /\ \E current_prices \in SamplePrices :
         LET orders == sim.pending_limit_orders
             unfilled == {k \in DOMAIN orders : ~orders[k].filled}
             marked == {k \in DOMAIN orders : should_fill(orders[k], current_prices)}
         IN  /\ ~(unfilled # {} /\ DOMAIN current_prices = {})
             /\ marked # {}
             /\ \E orders_to_fill \in Orderings(marked) :
                    cb' = [cb EXCEPT ![i] =
                              [RaceIdle EXCEPT !.op = "check_limit_orders",
                                               !.pc = "fill",
                                               !.orders_to_fill = orders_to_fill,
                                               !.current_prices = current_prices]]
    /\ UNCHANGED <<now, config, boot, monitor, sched, last_seen_period,
                   last_placed_period, locks, race, calls, hist, sim>>

\* the Position a fill of the order under the key sells, if it sells one
sold_by_fill(s, order_key) ==
    IF /\ order_key \in DOMAIN s.pending_limit_orders
       /\ ~s.pending_limit_orders[order_key].filled
       /\ s.pending_limit_orders[order_key].side = "SELL"
       /\ s.pending_limit_orders[order_key].token_id \in DOMAIN s.positions
       /\ ~s.positions[s.pending_limit_orders[order_key].token_id].sold
    THEN {s.pending_limit_orders[order_key].token_id}
    ELSE {}

\* the token a fill of the order under the key buys, if it buys
bought_by_fill(s, order_key) ==
    IF /\ order_key \in DOMAIN s.pending_limit_orders
       /\ ~s.pending_limit_orders[order_key].filled
       /\ s.pending_limit_orders[order_key].side = "BUY"
    THEN {s.pending_limit_orders[order_key].token_id}
    ELSE {}

\* lines 322-325 and 329-447: the next marked order filled
RaceFill(i) ==
    /\ cb[i].op = "check_limit_orders"
    /\ LET order_key == Head(cb[i].orders_to_fill)
           rest == Tail(cb[i].orders_to_fill)
       IN  /\ sim' = fill_limit_order(sim, order_key, cb[i].current_prices)
           /\ race' = [race EXCEPT
                  !.serial = [t \in SimTokens |->
                                 IF t \in bought_by_fill(sim, order_key)
                                 THEN @[t] + 1 ELSE @[t]],
                  !.credits = [id \in PositionIds |->
                                 IF /\ id[1] \in sold_by_fill(sim, order_key)
                                    /\ id[2] = race.serial[id[1]]
                                 THEN @[id] + 1 ELSE @[id]]]
           /\ cb' = [cb EXCEPT ![i] =
                        IF rest = <<>> THEN RaceIdle
                        ELSE [@ EXCEPT !.orders_to_fill = rest]]
    /\ UNCHANGED <<now, config, boot, monitor, sched, last_seen_period,
                   last_placed_period, locks, calls, hist>>

\* lines 586-596: the unsold positions of the market copied
RaceResolve(i) ==
    /\ cb[i].op = "idle"
    /\ \E market_resolved_up \in BOOLEAN :
       \E tokens \in Orderings(positions_to_resolve(sim, SimCondition)) :
         cb' = [cb EXCEPT ![i] =
                  IF tokens = <<>> THEN RaceIdle
                  ELSE [RaceIdle EXCEPT
                          !.op = "resolve_market_positions",
                          !.pc = "mark",
                          !.market_resolved_up = market_resolved_up,
                          !.positions_to_resolve =
                              [n \in DOMAIN tokens |->
                                  [token_id |-> tokens[n],
                                   position |-> sim.positions[tokens[n]],
                                   serial |-> race.serial[tokens[n]]]]]]
    /\ UNCHANGED <<now, config, boot, monitor, sched, last_seen_period,
                   last_placed_period, locks, race, calls, hist, sim>>

\* lines 617-625: the entry under the token marked sold, whatever it is by now
RaceResolveMark(i) ==
    /\ cb[i].op = "resolve_market_positions"
    /\ cb[i].pc = "mark"
    /\ LET copy == Head(cb[i].positions_to_resolve)
       IN  sim' = IF copy.token_id \in DOMAIN sim.positions
                  THEN [sim EXCEPT
                          !.positions[copy.token_id].sold = TRUE,
                          !.positions[copy.token_id].sell_price_actual =
                              Some(final_value(copy.position,
                                               cb[i].market_resolved_up))]
                  ELSE sim
    /\ cb' = [cb EXCEPT ![i].pc = "credit"]
    /\ UNCHANGED <<now, config, boot, monitor, sched, last_seen_period,
                   last_placed_period, locks, race, calls, hist>>

\* lines 627-632: the profit of the copy added to total_realized_pnl
RaceResolveCredit(i) ==
    /\ cb[i].op = "resolve_market_positions"
    /\ cb[i].pc = "credit"
    /\ LET copy == Head(cb[i].positions_to_resolve)
           rest == Tail(cb[i].positions_to_resolve)
           position_pnl == position_value(copy.position, cb[i].market_resolved_up)
                           - copy.position.investment_amount
       IN  /\ sim' = [sim EXCEPT !.total_realized_pnl = @ + position_pnl]
           /\ race' = [race EXCEPT
                          !.credits[<<copy.token_id, copy.serial>>] = @ + 1]
           /\ cb' = [cb EXCEPT ![i] =
                        IF rest = <<>> THEN RaceIdle
                        ELSE [@ EXCEPT !.pc = "mark",
                                       !.positions_to_resolve = rest]]
    /\ UNCHANGED <<now, config, boot, monitor, sched, last_seen_period,
                   last_placed_period, locks, calls, hist>>

InitRace ==
    /\ now = StartPeriod
    /\ config = [enable_eth |-> FALSE, enable_solana |-> FALSE,
                 enable_xrp |-> FALSE]
    /\ boot = [BootInit EXCEPT !.pc = "ok"]
    /\ monitor = RegularMarkets(StartPeriod)
    /\ sched = SchedInit
    /\ last_seen_period = None
    /\ last_placed_period = None
    /\ cb = [i \in {1, 2} |-> RaceIdle]
    /\ locks = MutexesFree
    /\ race = RaceHistInit
    /\ calls = <<>>
    /\ hist = HistInit
    /\ sim = SimInit

NextRace ==
    \/ \E i \in Tasks : RaceAdd(i)
    \/ \E i \in Tasks : RaceCheck(i)
    \/ \E i \in Tasks : RaceFill(i)
    \/ \E i \in Tasks : RaceResolve(i)
    \/ \E i \in Tasks : RaceResolveMark(i)
    \/ \E i \in Tasks : RaceResolveCredit(i)

SpecRace == InitRace /\ [][NextRace]_vars

---------------------------------------------------------------------------
(* The claims *)

Calls == 1..Len(calls)

\* the batch of period p has been placed to its end
BatchDone(p) ==
    /\ \E k \in Calls : calls[k].period_timestamp = p
    /\ \A i \in Tasks :
          cb[i].pc = "place" => cb[i].opportunities[1].period_timestamp # p

\* the markets the monitor holds for BTC and the enabled assets, placeholders
\* left out
HeldMarkets ==
    {x \in {"eth", "btc", "solana", "xrp"} :
        /\ \/ x = "btc"
           \/ x = "eth" /\ config.enable_eth
           \/ x = "solana" /\ config.enable_solana
           \/ x = "xrp" /\ config.enable_xrp
        /\ monitor[x].condition_id \notin
              {DUMMY_ETH, DUMMY_BTC, DUMMY_SOLANA, DUMMY_XRP}}

\* C1: for every period p and every token t the engine makes at most one
\* execute_limit_buy call for t with period_timestamp = p.
C1_AtMostOneBuyPerTokenAndPeriod ==
    \A j, k \in Calls :
        /\ calls[j].token_id = calls[k].token_id
        /\ calls[j].period_timestamp = calls[k].period_timestamp
        => j = k

\* C2: of two callbacks of one period that run at the same time and both
\* pass the window test, exactly one sets last_placed_period and places the
\* batch; the other places nothing.
C2_ExactlyOneWinner ==
    /\ Cardinality(race.won) <= 1
    /\ \A k \in Calls : calls[k].task \in race.won
    /\ (race.passed = {1, 2} /\ \A i \in Tasks : cb[i].pc = "idle")
          => Cardinality(race.won) = 1

C2_BothPassedOneLost ==
    /\ race.passed = {1, 2}
    /\ \A i \in Tasks : cb[i].pc = "idle"
    /\ calls # <<>>
    /\ \E i \in Tasks : i \notin race.won

\* C3: no order is placed whose period is the one in progress at the first
\* live snapshot after startup.
C3_NoOrderForStartupPeriod ==
    \A k \in Calls : Some(calls[k].period_timestamp) # hist.first_live_period

\* C4: every execute_limit_buy call for period p is made while now <= p + 2.
C4_NoBuyPastTheWindow == ~hist.late_buy

C6_DistinctConditionIds ==
    Running =>
        \A x, y \in HeldMarkets :
            monitor[x].condition_id = monitor[y].condition_id => x = y

\* C7: at startup with ETH enabled, when the exchange answers the ETH slug
\* and the BTC slug with one condition id, startup fails and no order is
\* placed.
C7_SameAnswerIsFatal ==
    (boot.pc # "start" /\ config.enable_eth /\ boot.same_answer)
        => (boot.pc = "fatal" /\ calls = <<>>)

\* C8: for a disabled asset no opportunity of its token types is built and
\* no call made, and a startup that fails never fails on the asset's
\* placeholder condition id: the asset's market carries that id and no
\* other market does.
DisabledAssets ==
    {a \in {"Eth", "Solana", "Xrp"} :
        \/ a = "Eth" /\ ~config.enable_eth
        \/ a = "Solana" /\ ~config.enable_solana
        \/ a = "Xrp" /\ ~config.enable_xrp}

Field(a) ==
    CASE a = "Eth" -> "eth" [] a = "Solana" -> "solana" [] a = "Xrp" -> "xrp"
      [] OTHER -> "btc"

Dummy(a) ==
    CASE a = "Eth" -> DUMMY_ETH [] a = "Solana" -> DUMMY_SOLANA
      [] a = "Xrp" -> DUMMY_XRP [] OTHER -> DUMMY_BTC

C8_DisabledAssetStaysOut ==
    \A a \in DisabledAssets :
        /\ \A k \in Calls : calls[k].token_type[1] # a
        /\ \A i \in Tasks : \A n \in 1..Len(cb[i].opportunities) :
              cb[i].opportunities[n].token_type[1] # a
        /\ boot.pc = "fatal" =>
              /\ boot.rejected[Field(a)].condition_id = Dummy(a)
              /\ \A y \in {"eth", "btc", "solana", "xrp"} \ {Field(a)} :
                    boot.rejected[y].condition_id # Dummy(a)

C8_BatchWithDisabledAssets ==
    /\ DisabledAssets = {"Eth", "Xrp"}
    /\ hist.updated
    /\ \E p \in {pa[1] : pa \in hist.paired} : BatchDone(p)

\* C9: a BUY order is filled if and only if a check made since it was added
\* supplied for its token an ask a with 0 < a <= target_price.
C9_FilledIffAskObserved ==
    \A k \in DOMAIN sim.pending_limit_orders :
        sim.pending_limit_orders[k].side = "BUY" =>
            (sim.pending_limit_orders[k].filled <=> sim.quote[k] = "hit")

C9_OneFilledOneMissed ==
    \E j, k \in DOMAIN sim.pending_limit_orders :
        /\ sim.pending_limit_orders[j].side = "BUY"
        /\ sim.pending_limit_orders[k].side = "BUY"
        /\ sim.pending_limit_orders[j].filled /\ sim.quote[j] = "hit"
        /\ ~sim.pending_limit_orders[k].filled /\ sim.quote[k] = "miss"

\* C10: once the filled flag stored under an order key is true, no
\* operation makes it false again.
C10_FilledNeverReverts ==
    [][\A k \in DOMAIN sim.pending_limit_orders :
          sim.pending_limit_orders[k].filled
              => sim'.pending_limit_orders[k].filled]_vars

\* the asks and bids a price map holds for a token
AsksFor(current_prices, token_id) ==
    IF token_id \in DOMAIN current_prices THEN current_prices[token_id].ask
    ELSE None
BidsFor(current_prices, token_id) ==
    IF token_id \in DOMAIN current_prices THEN current_prices[token_id].bid
    ELSE None

\* C11: a SELL order is filled if and only if a check made since it was
\* added supplied for its token a bid b with b > 0 and b >= target_price;
\* and whenever a check supplies such a bid to an unfilled SELL order, the
\* order is marked, the fill price is that bid, and the position it closes
\* gets that bid as its sell_price_actual.
C11_SellFilledIffBidObserved ==
    /\ \A k \in DOMAIN sim.pending_limit_orders :
         sim.pending_limit_orders[k].side = "SELL" =>
             (sim.pending_limit_orders[k].filled <=> sim.quote[k] = "hit")
    /\ \A k \in DOMAIN sim.pending_limit_orders, current_prices \in PriceMaps :
         LET order == sim.pending_limit_orders[k]
             hits == {b \in BidsFor(current_prices, order.token_id) :
                         b > 0 /\ b >= order.target_price}
             after == fill_limit_order(sim, k, current_prices)
         IN  (order.side = "SELL" /\ ~order.filled) =>
                 /\ should_fill(order, current_prices) <=> hits # {}
                 /\ \A b \in hits :
                      /\ fill_price(order, current_prices) = b
                      /\ after.pending_limit_orders[k].filled
                      /\ (/\ order.token_id \in DOMAIN sim.positions
                          /\ ~sim.positions[order.token_id].sold)
                         => after.positions[order.token_id].sell_price_actual
                                = Some(b)

\* a SELL order filled by a bid above its target closed a position at that
\* bid, while another SELL order was only supplied bids it does not fill at
C11_SoldAboveTargetAndOneMissed ==
    \E j, k \in DOMAIN sim.pending_limit_orders :
        /\ sim.pending_limit_orders[j].side = "SELL"
        /\ sim.pending_limit_orders[j].filled
        /\ sim.pending_limit_orders[j].token_id \in DOMAIN sim.positions
        /\ sim.positions[sim.pending_limit_orders[j].token_id].sell_price_actual
               = Some(LIMIT_PRICE + 1)
        /\ sim.pending_limit_orders[k].side = "SELL"
        /\ ~sim.pending_limit_orders[k].filled
        /\ sim.quote[k] = "miss"

\* C12: whenever a check supplies to an unfilled BUY order of size s an ask
\* a with 0 < a <= target_price, filling the order stores under the order's
\* token_id a position with purchase_price a, units s, investment_amount
\* s * a, sold false and the order's condition_id and period_timestamp,
\* raises total_invested by exactly s * a and leaves total_realized_pnl and
\* the other positions as they were; every position held was bought at such
\* an ask and its investment_amount is its units times its purchase_price.
C12_BuyFillCreatesPosition ==
    /\ \A t \in DOMAIN sim.positions :
         /\ sim.positions[t].token_id = t
         /\ sim.positions[t].purchase_price \in AskQuotes \ {0}
         /\ sim.positions[t].purchase_price <= LIMIT_PRICE
         /\ sim.positions[t].investment_amount
                = sim.positions[t].units * sim.positions[t].purchase_price
    /\ \A k \in DOMAIN sim.pending_limit_orders, current_prices \in PriceMaps :
        LET order == sim.pending_limit_orders[k]
            hits == {a \in AsksFor(current_prices, order.token_id) :
                        0 < a /\ a <= order.target_price}
            after == fill_limit_order(sim, k, current_prices)
        IN  (order.side = "BUY" /\ ~order.filled) =>
            \A a \in hits :
                /\ after.pending_limit_orders[k].filled
                /\ order.token_id \in DOMAIN after.positions
                /\ LET position == after.positions[order.token_id]
                   IN  /\ position.purchase_price = a
                       /\ position.units = order.size
                       /\ position.investment_amount = order.size * a
                       /\ ~position.sold
                       /\ position.sell_price_actual = None
                       /\ position.token_id = order.token_id
                       /\ position.condition_id = order.condition_id
                       /\ position.period_timestamp = order.period_timestamp
                /\ after.total_invested = sim.total_invested + order.size * a
                /\ after.total_realized_pnl = sim.total_realized_pnl
                /\ \A t \in DOMAIN sim.positions \ {order.token_id} :
                       /\ t \in DOMAIN after.positions
                       /\ after.positions[t] = sim.positions[t]

\* target 0.45, size 10, ask 0.44: purchase_price 0.44, investment 4.40
C12_BoughtACentUnderTheTarget ==
    \E k \in DOMAIN sim.pending_limit_orders :
        LET order == sim.pending_limit_orders[k]
        IN  /\ order.side = "BUY" /\ order.filled
            /\ order.target_price = LIMIT_PRICE /\ order.size = limit_shares
            /\ order.token_id \in DOMAIN sim.positions
            /\ sim.positions[order.token_id].purchase_price = LIMIT_PRICE - 1
            /\ sim.positions[order.token_id].investment_amount
                   = limit_shares * (LIMIT_PRICE - 1)
            /\ ~sim.positions[order.token_id].sold
            /\ sim.total_invested = limit_shares * (LIMIT_PRICE - 1)
            /\ sim.total_realized_pnl = 0

\* C13: whenever a check supplies to an unfilled SELL order a bid b with
\* b > 0 and b >= target_price, filling the order marks it filled; if the
\* token has an unsold position, that position becomes sold with
\* sell_price_actual b and total_realized_pnl rises by exactly
\* (b - purchase_price) * units; if the token has no position or a sold one,
\* positions and total_realized_pnl stay as they were. total_invested stays
\* as it was in both cases.
C13_SellFillClosesPosition ==
    \A k \in DOMAIN sim.pending_limit_orders, current_prices \in PriceMaps :
        LET order == sim.pending_limit_orders[k]
            t == order.token_id
            hits == {b \in BidsFor(current_prices, t) :
                        b > 0 /\ b >= order.target_price}
            after == fill_limit_order(sim, k, current_prices)
        IN  (order.side = "SELL" /\ ~order.filled) =>
            \A b \in hits :
                /\ after.pending_limit_orders[k].filled
                /\ after.total_invested = sim.total_invested
                /\ DOMAIN after.positions = DOMAIN sim.positions
                /\ \A u \in DOMAIN sim.positions \ {t} :
                       after.positions[u] = sim.positions[u]
                /\ IF t \in DOMAIN sim.positions /\ ~sim.positions[t].sold
                   THEN /\ after.positions[t] =
                             [sim.positions[t] EXCEPT
                                 !.sold = TRUE,
                                 !.sell_price_actual = Some(b)]
                        /\ after.total_realized_pnl = sim.total_realized_pnl
                             + (b - sim.positions[t].purchase_price)
                               * sim.positions[t].units
                   ELSE /\ after.positions = sim.positions
                        /\ after.total_realized_pnl = sim.total_realized_pnl

\* one SELL order closed a position bought at 0.44 at a bid of 0.46, a gain
\* of 0.02 a share, and another SELL order filled for a token that has no
\* position
C13_OneSoldAtAGainOneWithoutPosition ==
    \E j, k \in DOMAIN sim.pending_limit_orders :
        LET sold == sim.pending_limit_orders[j]
            bare == sim.pending_limit_orders[k]
        IN  /\ sold.side = "SELL" /\ sold.filled
            /\ sold.token_id \in DOMAIN sim.positions
            /\ sim.positions[sold.token_id].sold
            /\ sim.positions[sold.token_id].purchase_price = LIMIT_PRICE - 1
            /\ sim.positions[sold.token_id].sell_price_actual
                   = Some(LIMIT_PRICE + 1)
            /\ sim.total_realized_pnl = 2 * limit_shares
            /\ bare.side = "SELL" /\ bare.filled
            /\ bare.token_id \notin DOMAIN sim.positions

\* C14: resolve_market_positions(c, resolved_up) resolves exactly the unsold
\* positions whose condition_id is c: each becomes sold, an Up position wins
\* iff resolved_up and a Down position iff not resolved_up, a winning
\* position is valued units * 1.00 and gets sell_price_actual 1.00, a losing
\* one is valued 0 and gets sell_price_actual 0; every other position and
\* every other field of a resolved position stays as it was.
C14_ResolveSettlesOpenPositions ==
    \A c \in SimConditions, resolved_up \in BOOLEAN :
        LET after == resolve_market_positions(sim, c, resolved_up)
        IN  /\ DOMAIN after.positions = DOMAIN sim.positions
            /\ \A t \in DOMAIN sim.positions :
                 LET before == sim.positions[t]
                     won == \/ before.token_type[2] = "Up" /\ resolved_up
                            \/ before.token_type[2] = "Down" /\ ~resolved_up
                 IN  IF before.condition_id = c /\ ~before.sold
                     THEN /\ after.positions[t] =
                               [before EXCEPT
                                   !.sold = TRUE,
                                   !.sell_price_actual =
                                       Some(IF won THEN FINAL_VALUE ELSE 0)]
                          /\ position_value(before, resolved_up) =
                               IF won THEN before.units * FINAL_VALUE ELSE 0
                     ELSE after.positions[t] = sim.positions[t]

\* a market resolved with an Up and a Down position open: one won, one lost
C14_OneWonOneLost ==
    \E t, u \in DOMAIN sim.positions :
        /\ sim.positions[t].condition_id = SimCondition
        /\ sim.positions[u].condition_id = SimCondition
        /\ sim.positions[t].token_type[2] = "Up"
        /\ sim.positions[u].token_type[2] = "Down"
        /\ sim.positions[t].sold /\ sim.positions[u].sold
        /\ {sim.positions[t].sell_price_actual,
            sim.positions[u].sell_price_actual}
               = {Some(FINAL_VALUE), Some(0)}

CallbackStep ==
    /\ Running
    /\ \E i \in Tasks : cb[i].pc = "idle"
    /\ UNCHANGED <<now, boot, monitor, sched, calls>>
    /\ <<last_seen_period, last_placed_period, cb>>
           # <<last_seen_period', last_placed_period', cb'>>

\* C16: for every period q later than the period the engine started in, a
\* snapshot of q with time_remaining_seconds > 0 and at most 2 seconds
\* elapsed, handed to the callback, leaves the batch of q built: whatever
\* came before it, the callback that takes it has last_placed_period = q
\* when it is done.
C16_LaterPeriodGetsItsBatch ==
    [][(/\ CallbackStep
        /\ PeriodSnapshot.period_timestamp > StartPeriod
        /\ PeriodSnapshot.time_remaining_seconds > 0
        /\ PERIOD_DURATION - PeriodSnapshot.time_remaining_seconds
               <= WINDOW_SECONDS)
       => last_placed_period' = Some(PeriodSnapshot.period_timestamp)]_vars

\* the assets the batch is built for, and the market of each in a snapshot
BatchAssets ==
    {"Btc"} \cup {a \in {"Eth"} : config.enable_eth}
            \cup {a \in {"Solana"} : config.enable_solana}
            \cup {a \in {"Xrp"} : config.enable_xrp}
SnapshotMarket(snapshot, a) ==
    CASE a = "Btc" -> snapshot.btc_market
      [] a = "Eth" -> snapshot.eth_market
      [] a = "Solana" -> snapshot.solana_market
      [] OTHER -> snapshot.xrp_market
\* the tokens present in a snapshot, as token types
PresentTokens(snapshot) ==
    {<<a, "Up">> : a \in {b \in BatchAssets : SnapshotMarket(snapshot, b).up}}
    \cup
    {<<a, "Down">> : a \in {b \in BatchAssets : SnapshotMarket(snapshot, b).down}}

\* C17: the batch built from a snapshot holds exactly one BuyOpportunity for
\* each present token of BTC and of each enabled asset and none for an
\* absent token or a disabled asset (8 with ETH, SOL and XRP enabled and all
\* tokens present); each opportunity carries its market's condition id and
\* token, bid_price = the configured limit price, use_market_order = false
\* and the snapshot's period_timestamp.
C17_BatchHoldsEachPresentTokenOnce ==
    Running =>
    LET snapshot == PeriodSnapshot
        batch == build_opportunities(snapshot)
    IN  /\ \A tt \in PresentTokens(snapshot) :
             Cardinality({k \in 1..Len(batch) : batch[k].token_type = tt}) = 1
        /\ \A k \in 1..Len(batch) :
             /\ batch[k].token_type \in PresentTokens(snapshot)
             /\ batch[k].bid_price = LIMIT_PRICE
             /\ batch[k].use_market_order = FALSE
             /\ batch[k].period_timestamp = snapshot.period_timestamp
             /\ LET market == SnapshotMarket(snapshot, batch[k].token_type[1])
                IN  /\ batch[k].condition_id = market.condition_id
                    /\ batch[k].token_id = TokenId(market, batch[k].token_type[2])
        /\ (BatchAssets = Assets
            /\ \A a \in Assets : SnapshotMarket(snapshot, a).up
                                 /\ SnapshotMarket(snapshot, a).down)
           => Len(batch) = 8

\* all 8 orders of one period placed, and for the next period, where one
\* token is absent, a batch of 7 built and about to be placed
C17_BatchOfEightThenOfSeven ==
    \E i \in Tasks :
        /\ cb[i].pc = "place"
        /\ Len(cb[i].opportunities) = 7
        /\ Cardinality(PresentTokens(PeriodSnapshot)) = 7
        /\ \A k \in 1..7 :
               cb[i].opportunities[k].period_timestamp
                   = StartPeriod + PERIOD_DURATION
        /\ Cardinality({calls[k].token_type : k \in
               {j \in Calls : calls[j].period_timestamp = StartPeriod}}) = 8

\* the scheduler is about to discover (lines 275-303)
RolloverDue ==
    /\ Running
    /\ \/ /\ sched.pc = "top"
          /\ wait_decision(now, get_current_market_timestamp).pc = "discover"
       \/ sched.pc = "sleeping" /\ now >= sched.wake_at
\* the placeholder condition ids
Dummies == {DUMMY_ETH, DUMMY_BTC, DUMMY_SOLANA, DUMMY_XRP}
\* seen_ids as discover_market may get them: empty, the ids the monitor
\* holds, the id answered to the first slug it fetches
SeenSets(api, slug_prefixes) ==
    {{}, {monitor.eth.condition_id, monitor.btc.condition_id},
     {api[Slug(slug_prefixes[1], period(now))].condition_id}}

\* C18: whatever the exchange answers, discover_market returns an error or
\* a market that is active, not closed and whose condition_id is not in
\* seen_ids, at startup and at every rollover; and every market the monitor
\* holds that is not a placeholder is active and not closed.
C18_DiscoveredMarketIsTradableAndNew ==
    /\ Running =>
         \A f \in {"eth", "btc", "solana", "xrp"} :
             monitor[f].condition_id \notin Dummies
                 => monitor[f].active /\ ~monitor[f].closed
    /\ (boot.pc = "start" \/ RolloverDue) =>
         \A api \in Exchanges(period(now), MaxOdd - hist.odd),
            slug_prefixes \in {ETH_PREFIXES, BTC_PREFIXES,
                               SOLANA_PREFIXES, XRP_PREFIXES},
            include_previous \in BOOLEAN :
             \A seen_ids \in SeenSets(api, slug_prefixes) :
                 LET r == discover_market(api, slug_prefixes, now, seen_ids,
                                          include_previous)
                 IN  IF r.ok
                     THEN /\ r.market.active
                          /\ ~r.market.closed
                          /\ r.market.condition_id \notin seen_ids
                     ELSE r = Err

\* at startup the ETH discovery returned the market the exchange answered,
\* and the BTC discovery, offered only that seen market and ended ones,
\* returned an error
C18_OneFoundOneRefused ==
    /\ Running
    /\ boot.same_answer
    /\ monitor.eth.condition_id \notin Dummies
    /\ monitor.eth.active /\ ~monitor.eth.closed
    /\ monitor.btc.condition_id = DUMMY_BTC

\* C19: if no tradable BTC market can be discovered at startup, startup
\* fails and the monitor and the callback are never started: the program
\* never runs with the BTC placeholder that stands for a failed discovery.
C19_NoBtcMarketIsFatal ==
    Running => monitor.btc.condition_id # DUMMY_BTC

\* the mutexes no operation may hold while it locks another
Guarded == {"pending_limit_orders", "positions"}
\* the lock events of the operations that can be called in this state
OperationTraces ==
    {add_limit_order_locks, get_position_summary_locks}
    \cup {check_limit_orders_locks(sim, current_prices) :
             current_prices \in PriceMaps}
    \cup {resolve_market_positions_locks(sim, c) : c \in SimConditions}

\* C20: no SimulationTracker operation locks a mutex while it holds the
\* pending_limit_orders mutex or the positions mutex.
C20_LockOneThenRelease ==
    \A trace \in OperationTraces :
        \A pair \in Nested(trace) : pair[1] \notin Guarded

\* check_limit_orders, with nothing to log and nothing to fill, and
\* resolve_market_positions do keep to the discipline
C20_SomeOperationsDoRelease ==
    /\ sim.pending_limit_orders # <<>>
    /\ \E current_prices \in PriceMaps :
           Nested(check_limit_orders_locks(sim, current_prices)) = {}
    /\ \E c \in SimConditions :
           /\ positions_to_resolve(sim, c) # {}
           /\ Nested(resolve_market_positions_locks(sim, c)) = {}

\* C21: after any sequence of add_limit_order, check_limit_orders and
\* resolve_market_positions calls, every position is stored under its own
\* token_id, so for every token at most one position is unsold.
C21_OneOpenPositionPerToken ==
    /\ \A k \in DOMAIN sim.positions : sim.positions[k].token_id = k
    /\ \A t \in SimTokens :
         Cardinality({k \in DOMAIN sim.positions :
                         /\ sim.positions[k].token_id = t
                         /\ ~sim.positions[k].sold}) <= 1

\* a token bought twice while its first position was open: both purchases
\* are in total_invested, one open position is left
C21_BoughtAgainWhileOpen ==
    \E t \in DOMAIN sim.positions :
        /\ ~sim.positions[t].sold
        /\ DOMAIN sim.positions = {t}
        /\ sim.total_realized_pnl = 0
        /\ sim.total_invested > sim.positions[t].investment_amount

\* the field of the monitor that holds an asset's market, and the prefixes
\* its discovery is called with
MonitorField(a) ==
    CASE a = "Eth" -> "eth" [] a = "Btc" -> "btc"
      [] a = "Solana" -> "solana" [] OTHER -> "xrp"
PrefixesOf(a) ==
    CASE a = "Eth" -> ETH_PREFIXES [] a = "Btc" -> BTC_PREFIXES
      [] a = "Solana" -> SOLANA_PREFIXES [] OTHER -> XRP_PREFIXES
\* the assets a rollover discovers
DiscoveredAssets ==
    {"Btc"} \cup {a \in {"Eth"} : config.enable_eth}
            \cup {a \in {"Solana"} : config.enable_solana}
            \cup {a \in {"Xrp"} : config.enable_xrp}
\* what discover_market returns for an asset at a rollover
RolloverDiscovery(api, a) ==
    discover_market(api, PrefixesOf(a), now, rollover_seen_ids,
                    a \in {"Eth", "Btc"})

\* C22: at a rollover, an asset whose discovery fails keeps the market the
\* monitor held for it, and an asset whose discovery succeeds gets the
\* market discovered for it whenever update_markets succeeds: the failure
\* of one asset's discovery concerns that asset only.
C22_FailedAssetKeepsItsMarket ==
    RolloverDue =>
    \A api \in Exchanges(period(now), MaxOdd - hist.odd) :
        LET after == markets_after_rollover(rollover_discovery(api, now), TRUE)
        IN  \A a \in DiscoveredAssets :
                LET r == RolloverDiscovery(api, a)
                IN  IF r.ok
                    THEN after[MonitorField(a)] = r.market
                    ELSE after[MonitorField(a)] = monitor[MonitorField(a)]

\* C23: a rollover attempt in which the ETH (when enabled) or the BTC
\* discovery fails leaves the scheduler waiting: whenever its next
\* iteration starts before the next 15-minute boundary, that iteration
\* sleeps and does not discover.
C23_NoRetryBeforeTheBoundary ==
    RolloverDue =>
    \A api \in Exchanges(period(now), MaxOdd - hist.odd) :
        LET d == rollover_discovery(api, now)
            held == markets_after_rollover(d, TRUE)
        IN  ~(d.eth_result.ok /\ d.btc_result.ok) =>
                \A t \in now..(period(now) + PERIOD_DURATION - 1) :
                    wait_decision(t, held.btc.slug_period).pc = "sleeping"

\* C24: once an execute_limit_buy of the batch for period p has failed, the
\* rest of the batch is still attempted (a batch placed to its end holds
\* the Up and the Down call of each of its assets), and a later snapshot of
\* p handed to the callback builds no batch and leaves last_placed_period
\* alone: a snapshot that does get a batch is of a period later than every
\* call made.
C24_FailedBuyIsNotRetried ==
    (Running /\ hist.failed_buy) =>
        LET r == callback_prefix(PeriodSnapshot, last_seen_period,
                                 last_placed_period)
            p == PeriodSnapshot.period_timestamp
        IN  /\ \A pa \in hist.paired :
                   BatchDone(pa[1]) =>
                       \A side \in {"Up", "Down"} :
                           \E k \in Calls :
                               /\ calls[k].period_timestamp = pa[1]
                               /\ calls[k].token_type = <<pa[2], side>>
            /\ (\E k \in Calls : calls[k].period_timestamp = p) =>
                   /\ r.opportunities = <<>>
                   /\ r.placed = last_placed_period
            /\ r.opportunities # <<>> =>
                   \A k \in Calls : calls[k].period_timestamp < p

\* a call failed, its batch was placed to the end, and the snapshot the
\* callback would get now is one of the same period, still in the window
C24_SnapshotOfThePeriodAfterAFailure ==
    /\ Running
    /\ hist.failed_buy
    /\ \A i \in Tasks : cb[i].pc = "idle"
    /\ BatchDone(PeriodSnapshot.period_timestamp)
    /\ PeriodSnapshot.time_remaining_seconds > 0
    /\ ~window_closed(PeriodSnapshot)
    /\ Len(calls) >= 4

\* the period boundaries the clock reaches
Boundaries == {StartPeriod + k * PERIOD_DURATION : k \in 1..MaxPeriods}

\* C25: the scheduler loop never ends and never gets stuck: at the top of
\* the loop an iteration can always start and a sleep whose time has passed
\* can always return, whatever the outcome of the iterations before; and
\* once the clock has passed a period boundary the scheduler makes a
\* discovery attempt, in the period that began there or, when it sleeps
\* through that period, at a boundary after the last one the clock reaches.
C25_SchedulerKeepsGoing ==
    /\ [](Running =>
            IF sched.pc = "top" THEN ENABLED SchedTop
            ELSE now >= sched.wake_at => ENABLED SchedWake)
    /\ \A p \in Boundaries :
           (Running /\ now >= p) ~>
               \/ hist.attempted >= p
               \/ sched.pc = "sleeping" /\ sched.wake_at > EndTime

\* a discovery attempt that failed was followed by another one that
\* swapped the markets
C25_AttemptAfterAFailure ==
    /\ Running
    /\ hist.attempted \in Boundaries
    /\ hist.odd > 0
    /\ hist.updated
    /\ get_current_market_timestamp = hist.attempted
    /\ sched.pc = "sleeping"

\* one call of discover_market against what C26 says of it
FetchedInOrder(api, slug_prefixes, include_previous, seen_ids) ==
    LET r == discover_market(api, slug_prefixes, now, seen_ids,
                             include_previous)
        f == fetched_slugs(api, slug_prefixes, now, seen_ids,
                           include_previous)
        each == IF include_previous THEN PREVIOUS_OFFSETS + 1 ELSE 1
        acceptable(slug) ==
            /\ api[slug].found
            /\ api[slug].active
            /\ ~api[slug].closed
            /\ api[slug].condition_id \notin seen_ids
    IN  /\ Len(f) >= 1
        /\ \A j \in 1..Len(f) :
               f[j] = Slug(slug_prefixes[(j - 1) \div each + 1],
                           period(now) - ((j - 1) % each) * PERIOD_DURATION)
        /\ \A j \in 1..(Len(f) - 1) : ~acceptable(f[j])
        /\ IF r.ok
           THEN /\ acceptable(f[Len(f)])
                /\ r.market.condition_id = api[f[Len(f)]].condition_id
           ELSE /\ ~acceptable(f[Len(f)])
                /\ Len(f) = Len(slug_prefixes) * each
        /\ ~include_previous => \A j \in 1..Len(f) : f[j][2] = period(now)
        /\ acceptable(Slug(slug_prefixes[1], period(now))) =>
               f = <<Slug(slug_prefixes[1], period(now))>>

\* C26: discover_market fetches its candidates in a fixed order and returns
\* the first acceptable one. With include_previous the j-th slug fetched is
\* the one of prefix (j-1) div 4 + 1 and of the period (j-1) mod 4 periods
\* back; without it the j-th slug is the current one of prefix j, so no
\* earlier period is ever fetched. No slug fetched before the last is
\* acceptable; the market returned is the one answered to the last slug
\* fetched, and on an error every candidate was fetched. When the current
\* market of the first prefix is acceptable, it is the only slug fetched.
\* Checked for every prefix list, both values of include_previous and
\* several seen_ids at startup, and for the calls of the scheduler at every
\* rollover.
C26_CandidatesInOrderFirstAcceptableWins ==
    /\ boot.pc = "start" =>
         \A api \in Exchanges(period(now), MaxOdd + 1),
            slug_prefixes \in {ETH_PREFIXES, BTC_PREFIXES,
                               SOLANA_PREFIXES, XRP_PREFIXES},
            include_previous \in BOOLEAN :
             \A seen_ids \in SeenSets(api, slug_prefixes) :
                 FetchedInOrder(api, slug_prefixes, include_previous, seen_ids)
    /\ RolloverDue =>
         \A api \in Exchanges(period(now), MaxOdd - hist.odd), a \in Assets :
             FetchedInOrder(api, PrefixesOf(a), a \in {"Eth", "Btc"},
                            {monitor.eth.condition_id,
                             monitor.btc.condition_id})

\* at startup the SOL discovery went through the current slugs of both
\* prefixes and found nothing, the BTC discovery returned the market of its
\* first slug
C26_AllTriedAndFirstTaken ==
    /\ Running
    /\ config.enable_solana
    /\ ~hist.updated
    /\ monitor.solana.condition_id = DUMMY_SOLANA
    /\ monitor.btc.slug_period = period(now)
    /\ monitor.btc.condition_id = CondId("Btc", period(now))

\* the exchange as regular, except that it still answers the current slug
\* of one asset with the market the monitor holds for that asset
StaleExchanges ==
    LET regular == [s \in Slugs(period(now)) |-> RegularAnswer(s, period(now))]
    IN  {[regular EXCEPT ![Slug(PrefixesOf(a)[1], period(now))] =
              Answer(monitor[MonitorField(a)].condition_id,
                     TRUE, FALSE, TRUE, TRUE)] :
            a \in {b \in DiscoveredAssets :
                      monitor[MonitorField(b)].condition_id \notin Dummies}}

\* C27: at a rollover seen_ids holds the condition id of every market the
\* monitor holds, and the market a rollover installs for an asset never has
\* the condition id of a market held before it (placeholders left out).
C27_InstalledMarketIsNew ==
    RolloverDue =>
        /\ \A a \in DiscoveredAssets :
               monitor[MonitorField(a)].condition_id \notin Dummies
                   => monitor[MonitorField(a)].condition_id \in rollover_seen_ids
        /\ \A api \in Exchanges(period(now), MaxOdd - hist.odd)
                        \cup StaleExchanges :
               LET after == markets_after_rollover(
                                rollover_discovery(api, now), TRUE)
               IN  after # monitor =>
                       \A a \in DiscoveredAssets, g \in DOMAIN monitor :
                           after[MonitorField(a)].condition_id \notin Dummies
                               => after[MonitorField(a)].condition_id
                                      # monitor[g].condition_id

\* the periods the monitor may be at when the scheduler looks: none (0),
\* the current one, the one before, two before, the next
MonitorPeriods ==
    {0} \cup {period(now) + k * PERIOD_DURATION : k \in -2..1}
\* the times at which the scheduler may look within the period: now, the
\* middle of the period, its last second
DecisionTimes == {now, period(now) + 450, period(now) + PERIOD_DURATION - 1}

\* C28: an iteration of the scheduler goes to the discovery without
\* sleeping when the monitor's period is neither 0 nor the current period;
\* otherwise, with time_to_next = period(now) + 900 - now, it sleeps
\* time_to_next when that is between 0 and 1800, goes on at once when it is
\* 0, and else sleeps 5 seconds and restarts without discovering. A
\* scheduler found asleep sleeps to the next boundary and the monitor's
\* period is 0 or the period before that boundary.
C28_WaitDecision ==
    Running =>
        /\ \A t \in DecisionTimes, m \in MonitorPeriods :
               LET time_to_next == period(t) + 900 - t
                   d == wait_decision(t, m)
               IN  IF m # 0 /\ m # period(t)
                   THEN d.pc = "discover" /\ d.sleep = 0
                   ELSE IF 0 < time_to_next /\ time_to_next < 1800
                   THEN d.pc = "sleeping" /\ d.sleep = time_to_next
                   ELSE IF time_to_next = 0
                   THEN d.pc = "discover" /\ d.sleep = 0
                   ELSE d.pc = "anomaly" /\ d.sleep = 5
        /\ sched.pc = "sleeping" =>
               /\ sched.wake_at % 900 = 0
               /\ get_current_market_timestamp \in {0, sched.wake_at - 900}
        /\ sched.pc = "top" /\ sched.wake_at = 0 /\ hist.attempted # 0 =>
               hist.attempted > StartPeriod

\* the scheduler has discovered without ever sleeping: its first iteration
\* found the monitor a period behind
C28_DiscoveredWithoutSleeping ==
    /\ Running
    /\ sched = SchedInit
    /\ hist.attempted = period(now)
    /\ hist.updated
    /\ get_current_market_timestamp = period(now)

\* C29: in one scheduler iteration the MARKET_START record and reset_period
\* come only after update_markets has succeeded, in the order update_markets,
\* log_market_start, reset_period; when the ETH or the BTC discovery fails or
\* update_markets returns an error, there is no swap, no record and no reset,
\* and the monitor holds what it held.
C29_UpdateThenLogThenReset ==
    RolloverDue =>
    \A api \in Exchanges(period(now), MaxOdd - hist.odd),
       update_ok \in BOOLEAN, is_simulation \in BOOLEAN :
        LET d == rollover_discovery(api, now)
            e == rollover_effects(d, update_ok, is_simulation)
            at(x) == {k \in 1..Len(e) : e[k] = x}
            before(x, y) == \A i \in at(x), j \in at(y) : i < j
        IN  /\ \A x \in {"log_market_start", "reset_period"} :
                   at(x) # {} =>
                       /\ at("update_markets") # {}
                       /\ before("update_markets", x)
            /\ before("log_market_start", "reset_period")
            /\ \A x \in {"update_markets", "log_market_start", "reset_period"} :
                   Cardinality(at(x)) <= 1
            /\ IF d.eth_result.ok /\ d.btc_result.ok /\ update_ok
               THEN /\ at("update_markets") # {}
                    /\ at("reset_period") # {}
                    /\ is_simulation <=> at("log_market_start") # {}
                    /\ markets_after_rollover(d, update_ok).btc
                           = d.btc_result.market
               ELSE /\ \A k \in 1..Len(e) : e[k] = "warn"
                    /\ markets_after_rollover(d, update_ok) = monitor

\* an iteration has just swapped the markets and is back at the top of the
\* loop; the exchange gave an irregular answer on the way
C29_SwappedAfterAFailedAttempt ==
    /\ Running
    /\ sched.pc = "top"
    /\ hist.updated
    /\ hist.odd > 0
    /\ hist.attempted > StartPeriod
    /\ get_current_market_timestamp = hist.attempted
    /\ monitor.btc.condition_id = CondId("Btc", hist.attempted)

\* C30: the callback, handed a snapshot with time_remaining_seconds = 0,
\* leaves last_seen_period and last_placed_period as they are and builds no
\* opportunity; handed a snapshot with time remaining but more than 2
\* seconds elapsed, it may set last_seen_period to the snapshot's period but
\* leaves last_placed_period as it is and builds no opportunity, so nothing
\* is placed.
C30_DeadAndLateSnapshotsPlaceNothing ==
    Running =>
        LET snapshot == PeriodSnapshot
            r == callback_prefix(snapshot, last_seen_period,
                                 last_placed_period)
        IN  /\ snapshot.time_remaining_seconds = 0 =>
                   /\ r.seen = last_seen_period
                   /\ r.placed = last_placed_period
                   /\ r.opportunities = <<>>
            /\ (/\ snapshot.time_remaining_seconds > 0
                /\ 900 - snapshot.time_remaining_seconds > 2) =>
                   /\ r.seen \in {last_seen_period,
                                  Some(snapshot.period_timestamp)}
                   /\ r.placed = last_placed_period
                   /\ r.opportunities = <<>>

\* a snapshot of a later period that came more than 2 seconds into it moved
\* last_seen_period on from the period the process started in; no batch was
\* built for the later period
C30_LateSnapshotMovedLastSeen ==
    /\ Running
    /\ hist.first_live_period = Some(StartPeriod)
    /\ last_seen_period = Some(StartPeriod + PERIOD_DURATION)
    /\ last_placed_period # last_seen_period
    /\ PeriodSnapshot.period_timestamp = StartPeriod + PERIOD_DURATION
    /\ PeriodSnapshot.time_remaining_seconds > 0
    /\ \A k \in Calls : calls[k].period_timestamp = StartPeriod

\* the epoch seconds from the start of the current period to the start of
\* the next
PeriodSeconds == period(now)..(period(now) + PERIOD_DURATION)

\* C31: for every second t, period(t) is a multiple of 900 with
\* period(t) <= t < period(t) + 900, so period(t) + 900 - t lies in 1..900;
\* an iteration of the scheduler that finds the monitor at 0 or at the
\* current period therefore always sleeps, between 1 and 900 seconds: it
\* never goes on at once for a sleep_duration of 0 and never takes the
\* 5-second restart, and the scheduler is never found in that restart.
C31_TimeToNextIsOneTo900 ==
    /\ \A t \in PeriodSeconds :
           /\ period(t) % 900 = 0
           /\ period(t) <= t
           /\ t < period(t) + 900
           /\ period(t) + 900 - t \in 1..900
           /\ \A m \in {0, period(t)} :
                  /\ wait_decision(t, m).pc = "sleeping"
                  /\ wait_decision(t, m).sleep = period(t) + 900 - t
                  /\ wait_decision(t, m).sleep \in 1..900
    /\ sched.pc # "anomaly"
    /\ sched.pc = "sleeping" => sched.wake_at \in {period(now) + 900, period(now)}

\* the scheduler looked 300 seconds into a period and sleeps the 600
\* seconds to the next boundary
C31_SleepingFromMidPeriod ==
    /\ Running
    /\ now = StartPeriod + 300
    /\ sched.pc = "sleeping"
    /\ sched.wake_at - now = 600

\* C32: get_position_summary and log_position_summary always return: a
\* task that runs one of them is never waiting for a mutex it holds itself.
C32_SummaryReturns ==
    \A i \in Tasks :
        (cb[i].op \in {"get_position_summary", "log_position_summary"}
         /\ AtEvent(i)[1] = "lock")
            => locks[AtEvent(i)[2]] # i

\* the order the mutexes are taken in: the orders, the positions, the two
\* totals, the log files; the mutex of one market's file is taken inside
\* market_files
LockRank ==
    [m \in Mutexes |->
        CASE m = "pending_limit_orders" -> 1
          [] m = "positions" -> 2
          [] m \in {"total_invested", "total_realized_pnl"} -> 3
          [] m \in {"log_file", "market_files"} -> 4
          [] OTHER -> 5]
HeldBy(i) == {m \in Mutexes : locks[m] = i}
C33_InOrder ==
    \A i \in Tasks :
        AtEvent(i)[1] = "lock" =>
            \A m \in HeldBy(i) : LockRank[m] < LockRank[AtEvent(i)[2]]
C33_NoDeadlock ==
    (\E i \in Tasks : cb[i].op # "idle") =>
        \E i \in Tasks : \/ AtEvent(i)[1] \in {"unlock", "return"}
                         \/ AtEvent(i)[1] = "lock" /\ locks[AtEvent(i)[2]] = 0

\* C33: tasks that call add_limit_order, check_limit_orders (with fills),
\* resolve_market_positions, set_position_sell_price, get_all_positions,
\* get_total_spending_and_earnings and log_pending_orders_summary at the
\* same time never deadlock: a task asks for a mutex only while it holds
\* mutexes that come earlier in the one order, some task can always go on,
\* and every call returns.
C33_OrderedLocksAndEveryCallReturns ==
    /\ [](~race.summary => (C33_InOrder /\ C33_NoDeadlock))
    /\ \A i \in {1, 2} :
           (~race.summary /\ cb[i].op # "idle") ~> (cb[i].op = "idle")

\* a fill holds the orders and the positions while the other task, in a
\* resolution, waits for the positions
C33_ResolutionWaitsForAFill ==
    /\ ~race.summary
    /\ cb[1].op = "check_limit_orders"
    /\ HeldBy(1) = {"pending_limit_orders", "positions"}
    /\ cb[2].op = "resolve_market_positions"
    /\ AtEvent(2) = Lock("positions")

\* C34: whatever the interleaving of resolve_market_positions calls for
\* one market and SELL fills, no Position is added to total_realized_pnl
\* more than once.
C34_CreditedAtMostOnce ==
    \A id \in PositionIds : race.credits[id] <= 1

\* C37: a BUY fill stores a Position whose purchase_price is above 0 and at
\* most the target_price of the order that is under the key when it is
\* filled, also when the order was replaced after the check marked it.
C37_BoughtAtTheTargetOrBelow ==
    [][\A t \in SimTokens :
          t \in bought_by_fill(sim, OrderKey(t, "BUY"))
          /\ sim'.pending_limit_orders[OrderKey(t, "BUY")].filled
          => /\ t \in DOMAIN sim'.positions
             /\ 0 < sim'.positions[t].purchase_price
             /\ sim'.positions[t].purchase_price
                    <= sim.pending_limit_orders[OrderKey(t, "BUY")].target_price]_vars

\* C35: after any calls of add_limit_order and check_limit_orders, a
\* second BUY filled for a token that has a position included,
\* total_invested is the sum of investment_amount over the positions stored.
C35_InvestedIsTheSumOverPositions ==
    LET investment_amount(t) == sim.positions[t].investment_amount
    IN  sim.total_invested = SumOver(DOMAIN sim.positions, investment_amount)

\* C36: after any tracker operations run one at a time, total_realized_pnl
\* is the sum over the sold positions of sell_price_actual * units -
\* investment_amount, and 0 while no position is sold.
C36_RealizedIsTheSumOverSoldPositions ==
    LET sold == {t \in DOMAIN sim.positions : sim.positions[t].sold}
        pnl(t) == SumOver(sim.positions[t].sell_price_actual,
                          LAMBDA price : price * sim.positions[t].units)
                  - sim.positions[t].investment_amount
    IN  sim.total_realized_pnl = SumOver(sold, pnl)

\* the tracker, and the tracker with the positions of some of its tokens
\* being positions in the other market
WithPositionsElsewhere(s) ==
    {[s EXCEPT !.positions =
         [t \in DOMAIN s.positions |->
             IF t \in T
             THEN [s.positions[t] EXCEPT !.condition_id = OtherCondition]
             ELSE s.positions[t]]] : T \in SUBSET DOMAIN s.positions}

\* C38: resolve_market_positions(c, outcome) leaves every Position of
\* another condition_id, every Position that is sold, the pending orders
\* and total_invested as they are; when c has no unsold position it returns
\* (0, 0, 0) and changes nothing.
C38_ResolutionTouchesTheUnsoldOfItsMarketOnly ==
    \A s \in WithPositionsElsewhere(sim) :
    \A condition_id \in SimConditions, market_resolved_up \in BOOLEAN :
        LET after == resolve_market_positions(s, condition_id, market_resolved_up)
            returned == resolve_market_returns(s, condition_id, market_resolved_up)
        IN  /\ DOMAIN after.positions = DOMAIN s.positions
            /\ \A t \in DOMAIN s.positions :
                   (s.positions[t].condition_id # condition_id
                    \/ s.positions[t].sold)
                       => after.positions[t] = s.positions[t]
            /\ after.pending_limit_orders = s.pending_limit_orders
            /\ after.total_invested = s.total_invested
            /\ (\A t \in DOMAIN s.positions :
                   s.positions[t].condition_id = condition_id
                       => s.positions[t].sold)
                   => /\ after = s
                      /\ returned = [total_spent |-> 0, total_earned |-> 0,
                                     net_pnl |-> 0]

\* the Up position was sold by a SELL fill, then the market resolved Down:
\* the Down position is paid out, the Up position still shows its sale
C38_SoldBeforeTheResolution ==
    /\ DOMAIN sim.positions = SimTokens
    /\ sim.positions[<<SimCondition, "Up">>].sold
    /\ sim.positions[<<SimCondition, "Up">>].sell_price_actual = Some(LIMIT_PRICE + 1)
    /\ sim.positions[<<SimCondition, "Down">>].sold
    /\ sim.positions[<<SimCondition, "Down">>].sell_price_actual = Some(FINAL_VALUE)
    /\ \E k \in DOMAIN sim.pending_limit_orders : sim.pending_limit_orders[k].filled
    /\ sim.total_invested > 0

\* period_timestamps an order may carry: none, the period before, the
\* period of the market
OrderPeriods == {0, StartPeriod - PERIOD_DURATION, StartPeriod}

\* the order under key k, carrying period_timestamp p, is marked and filled
\* by a check that quotes q for its token
FilledByACheck(s, k, p, q) ==
    LET order == [s.pending_limit_orders[k] EXCEPT !.period_timestamp = p]
        current_prices == (order.token_id :> q)
        carrying == [s EXCEPT !.pending_limit_orders[k] = order]
    IN  /\ should_fill(order, current_prices)
        /\ fill_all(carrying, <<k>>, current_prices).pending_limit_orders[k].filled

\* C39: the tracker removes no order and no position: the keys of
\* pending_limit_orders and of positions only grow; and an order that is
\* not filled is filled by any later check that quotes a price meeting its
\* target, whatever its period_timestamp and whether or not the market has
\* been resolved.
C39_NothingRemovedNothingExpires ==
    /\ [][/\ DOMAIN sim.pending_limit_orders \subseteq DOMAIN sim'.pending_limit_orders
          /\ DOMAIN sim.positions \subseteq DOMAIN sim'.positions]_vars
    /\ [](\A k \in DOMAIN sim.pending_limit_orders :
             ~sim.pending_limit_orders[k].filled =>
                 \A p \in OrderPeriods, q \in TokenPrices :
                     (IF k[2] = "BUY"
                      THEN \E a \in q.ask :
                               0 < a /\ a <= sim.pending_limit_orders[k].target_price
                      ELSE \E b \in q.bid :
                               0 < b /\ b >= sim.pending_limit_orders[k].target_price)
                         => FilledByACheck(sim, k, p, q))

\* the market was resolved with the Up position in it, and the BUY order
\* of the Down token was filled after that
C39_FilledAfterTheResolution ==
    /\ DOMAIN sim.positions = SimTokens
    /\ sim.positions[<<SimCondition, "Up">>].sold
    /\ sim.positions[<<SimCondition, "Up">>].sell_price_actual = Some(FINAL_VALUE)
    /\ ~sim.positions[<<SimCondition, "Down">>].sold
    /\ sim.pending_limit_orders[OrderKey(<<SimCondition, "Down">>, "BUY")].filled

\* C40: discover_market reads seen_ids and never writes it: after every
\* call the set is the one the caller passed. At startup the set ends as
\* the ETH and the BTC id the caller inserted, at a rollover as the two ids
\* it was seeded with: no discovered id is in it unless the caller put it
\* there.
C40_SeenIdsAreTheCallersOnly ==
    /\ boot.pc = "start" =>
         \A api \in Exchanges(period(now), MaxOdd - hist.odd) :
             /\ LET r == get_or_discover_markets(api, now)
                IN  r.seen_ids = {r.markets.eth.condition_id,
                                  r.markets.btc.condition_id}
             /\ \A a \in Assets : \A seen_ids \in SeenSets(api, PrefixesOf(a)) :
                    seen_ids_after(api, PrefixesOf(a), now, seen_ids,
                                   a \in {"Eth", "Btc"}) = seen_ids
    /\ RolloverDue =>
         \A api \in Exchanges(period(now), MaxOdd - hist.odd) :
             /\ rollover_discovery(api, now).seen_ids = rollover_seen_ids
             /\ \A a \in Assets :
                    seen_ids_after(api, PrefixesOf(a), now, rollover_seen_ids,
                                   a \in {"Eth", "Btc"}) = rollover_seen_ids

\* a rollover installed one market for ETH and for BTC: the id the ETH
\* discovery found was not in seen_ids when BTC was discovered
C40_RolloverFoundOneMarketTwice ==
    /\ Running
    /\ hist.updated
    /\ monitor.eth.condition_id = monitor.btc.condition_id
    /\ monitor.eth.condition_id # DUMMY_ETH

===========================================================================
